---------------------------- MODULE Spec2Model ----------------------------
(***************************************************************************)
(* Model of the stock analysis engine (SimpleAnalysisEngine), the Stock    *)
(* entity, the summaries of SummaryService, the stocks, analysis and       *)
(* summaries tables of SQLiteRepository, the collector's symbol suffix     *)
(* (YahooFinanceCollector) and the collect, analyze and summarize          *)
(* commands.                                                               *)
(*                                                                         *)
(* Specifications.  Spec analyses one quote; SpecBatch analyses a list and *)
(* builds the daily overview; SpecOverview builds the daily overview of    *)
(* quotes analysed with histories and of large markets; SpecStore and      *)
(* SpecSummaries call the repository in any order; SpecSummarize runs the  *)
(* summarize command; SpecCollect runs collect and analyze commands.       *)
(*                                                                         *)
(* Numbers.  Decimal and float values are modelled as exact rationals      *)
(* [some, n, d] with d > 0 in lowest terms; Python's None is the record    *)
(* None.  Market capitalisation is counted in units of 10^9 JPY so that    *)
(* the code's thresholds fit the checker's integers.                       *)
(*                                                                         *)
(* Volatility.  statistics.stdev is the square root of the exact sample    *)
(* variance.  The field `volatility` of the model holds that variance      *)
(* (the square of the code's value); the code only ever tests volatility   *)
(* for truth and compares it with non-negative constants, and both are     *)
(* preserved by squaring (VolGt).                                          *)
(***************************************************************************)
EXTENDS Integers, Sequences, FiniteSets, TLC

VARIABLES
    stock,            \* the Stock given to analyze_stock
    historical_data,  \* its optional price history: NoHistory or a sequence of closes
    analysis,         \* the Analysis returned by analyze_stock
    analysis_error,   \* the exception logged by analyze_stock's handler, "none" if none
    rsi_ret,          \* the value returned by a direct call of _calculate_simple_rsi
    pc,               \* position of the caller
    symbol_option,    \* the --symbol(s) option of the command run last
    stocks,           \* the list given to analyze_multiple_stocks / generate_daily_overview
    analyses,         \* the list analyze_multiple_stocks builds
    overview,         \* outcome of generate_daily_overview
    summary,          \* outcome of generate_stock_analysis_summary
    stocks_table,     \* the rows of table stocks
    summaries_table,  \* the rows of table summaries
    analysis_table,   \* the rows of table analysis, in the order of their ids
    save_ret,         \* the value returned by the last save_stock
    get_ret,          \* the symbol asked of get_stock and what it returned
    latest_ret        \* the limit given to get_latest_summaries and what it returned

\* the SQLiteRepository and the results of its calls
repository ==
    <<stocks_table, summaries_table, analysis_table, save_ret, get_ret, latest_ret>>

vars == <<stock, historical_data, analysis, analysis_error, rsi_ret, pc,
          symbol_option, stocks, analyses, overview, summary, repository>>

-----------------------------------------------------------------------------
(* Exact rational arithmetic *)

Abs(x) == IF x < 0 THEN -x ELSE x

RECURSIVE GCD(_, _)
GCD(a, b) == IF b = 0 THEN a ELSE GCD(b, a % b)

None == [some |-> FALSE, n |-> 0, d |-> 1]

Num(n, d) ==
    LET g == GCD(Abs(n), d)
    IN  [some |-> TRUE, n |-> n \div g, d |-> d \div g]

IntNum(k) == Num(k, 1)

\* Python truth value of an Optional number: None and 0 are both false
Truthy(x) == x.some /\ x.n # 0

NumLt(a, b) == a.n * b.d < b.n * a.d
NumGt(a, b) == NumLt(b, a)
NumLe(a, b) == ~NumLt(b, a)
NumGe(a, b) == ~NumLt(a, b)

NumAdd(a, b) ==
    LET l == (a.d * b.d) \div GCD(a.d, b.d)
    IN  Num(a.n * (l \div a.d) + b.n * (l \div b.d), l)
NumNeg(a) == Num(-a.n, a.d)
NumSub(a, b) == NumAdd(a, NumNeg(b))
NumMul(a, b) ==
    LET g1 == GCD(Abs(a.n), b.d)
        g2 == GCD(Abs(b.n), a.d)
    IN  Num((a.n \div g1) * (b.n \div g2), (a.d \div g2) * (b.d \div g1))
\* b # 0
NumDiv(a, b) ==
    IF b.n > 0 THEN NumMul(a, Num(b.d, b.n)) ELSE NumMul(a, Num(-b.d, -b.n))
NumAbs(a) == Num(Abs(a.n), a.d)

-----------------------------------------------------------------------------
(* Stock entity *)

\* Stock.price_change_percent
price_change_percent(s) ==
    IF Truthy(s.current_price) /\ Truthy(s.previous_close)
       /\ NumGt(s.previous_close, IntNum(0))
    THEN NumMul(NumDiv(NumSub(s.current_price, s.previous_close), s.previous_close),
                IntNum(100))
    ELSE None

\* a datetime: whole seconds and microseconds
DateTime(second, microsecond) == [second |-> second, microsecond |-> microsecond]

\* the value of datetime.now() when the quotes and the summaries are built
Now == DateTime(1, 0)

-----------------------------------------------------------------------------
(* Analysis entity: the state of a freshly constructed Analysis *)

NewAnalysis(symbol) ==
    [stock_symbol      |-> symbol,
     trend_direction   |-> "none",
     volatility        |-> None,
     moving_average_5d |-> None,
     moving_average_20d |-> None,
     rsi               |-> None,
     valuation_score   |-> None,
     growth_potential  |-> None,
     risk_level        |-> "none",
     risk_factors      |-> <<>>,
     daily_return      |-> None]

-----------------------------------------------------------------------------
(* Price history: None, or a list of records whose 'close' is read with    *)
(* .get('close', 0); only the closes are kept.                             *)

NoHistory == [given |-> FALSE, closes |-> <<>>]
History(cs) == [given |-> TRUE, closes |-> cs]

\* Python truth value of historical_data: None and [] are both false
HistoryTruthy(h) == h.given /\ Len(h.closes) > 0

Min(a, b) == IF a < b THEN a ELSE b
Max(a, b) == IF a > b THEN a ELSE b

\* the sums are taken over the two halves of the list, which keeps the
\* evaluation shallow; the arithmetic is exact, so the order does not matter
RECURSIVE SumInts(_)
SumInts(xs) ==
    IF xs = <<>> THEN 0
    ELSE IF Len(xs) = 1 THEN xs[1]
    ELSE SumInts(SubSeq(xs, 1, Len(xs) \div 2))
         + SumInts(SubSeq(xs, Len(xs) \div 2 + 1, Len(xs)))

RECURSIVE SumNums(_)
SumNums(xs) ==
    IF xs = <<>> THEN IntNum(0)
    ELSE IF Len(xs) = 1 THEN xs[1]
    ELSE NumAdd(SumNums(SubSeq(xs, 1, Len(xs) \div 2)),
                SumNums(SubSeq(xs, Len(xs) \div 2 + 1, Len(xs))))

RECURSIVE SumSquares(_)
SumSquares(xs) ==
    IF xs = <<>> THEN IntNum(0)
    ELSE IF Len(xs) = 1 THEN NumMul(xs[1], xs[1])
    ELSE NumAdd(SumSquares(SubSeq(xs, 1, Len(xs) \div 2)),
                SumSquares(SubSeq(xs, Len(xs) \div 2 + 1, Len(xs))))

\* statistics.mean of a non-empty list of closes
mean(xs) == Num(SumInts(xs), Len(xs))

\* the last k elements of xs (xs[-k:]), Len(xs) >= k
LastK(xs, k) == SubSeq(xs, Len(xs) - k + 1, Len(xs))

\* analyze_stock, the loop building `returns`: daily percentage returns of
\* the consecutive pairs (i-1, i), i = from..Len(cs), whose prior close is > 0
DailyReturns(cs, from) ==
    LET valid == SelectSeq([k \in 1..(Len(cs) - from + 1) |-> k + from - 1],
                           LAMBDA i : cs[i - 1] > 0)
    IN  [k \in 1..Len(valid) |->
            LET prev_price == cs[valid[k] - 1]
                curr_price == cs[valid[k]]
            IN  NumMul(Num(curr_price - prev_price, prev_price), IntNum(100))]

\* statistics.stdev(returns)^2 for Len(returns) >= 2: the exact sample
\* variance sum((x - m)^2) / (n - 1) = (n * sum(x^2) - sum(x)^2) / (n * (n - 1))
SampleVariance(returns) ==
    LET n  == Len(returns)
        s1 == SumNums(returns)
        s2 == SumSquares(returns)
    IN  NumDiv(NumSub(NumMul(IntNum(n), s2), NumMul(s1, s1)), IntNum(n * (n - 1)))

\* volatility > t, for a constant t >= 0 (volatility holds the variance)
VolGt(v, t) == NumGt(v, IntNum(t * t))

-----------------------------------------------------------------------------
(* SimpleAnalysisEngine._calculate_simple_rsi *)

RSI_PERIOD == 14

\* round(x, 2) for x >= 0: nearest hundredth, ties to even
Round2(x) ==
    LET q == (x.n * 100) \div x.d
        r == (x.n * 100) % x.d
        h == IF 2 * r < x.d THEN q
             ELSE IF 2 * r > x.d THEN q + 1
             ELSE IF q % 2 = 0 THEN q ELSE q + 1
    IN  Num(h, 100)

\* the gains list built by the loop over i = from .. last (1-based pairs)
Gains(cs, from, last) ==
    [k \in 1..(last - from + 1) |->
        LET change == cs[k + from - 1] - cs[k + from - 2]
        IN  IF change > 0 THEN change ELSE 0]

Losses(cs, from, last) ==
    [k \in 1..(last - from + 1) |->
        LET change == cs[k + from - 1] - cs[k + from - 2]
        IN  IF change > 0 THEN 0 ELSE Abs(change)]

\* a slip in the formula: rsi = 100 * rs, without the 1 / (1 + rs) normalisation
RsiFromAverages_Unnormalised(avg_gain, avg_loss) ==
    Round2(NumMul(IntNum(100), NumDiv(avg_gain, avg_loss)))

\* rs = avg_gain / avg_loss; rsi = 100 - (100 / (1 + rs)); round(rsi, 2)
RsiFromAverages(avg_gain, avg_loss) ==
    LET rs == NumDiv(avg_gain, avg_loss)
    IN  Round2(NumSub(IntNum(100), NumDiv(IntNum(100), NumAdd(IntNum(1), rs))))

\* range(1, min(len(historical_data), period + 1)) in 1-based indices
RsiLast(h) == Min(Len(h.closes), RSI_PERIOD + 1)

_calculate_simple_rsi(h) ==
    IF ~HistoryTruthy(h) \/ Len(h.closes) < RSI_PERIOD + 1
    THEN IntNum(50)
    ELSE LET gains  == Gains(h.closes, 2, RsiLast(h))
             losses == Losses(h.closes, 2, RsiLast(h))
         IN  IF gains = <<>> \/ losses = <<>>
             THEN IntNum(50)
             ELSE LET avg_gain == mean(gains)
                      avg_loss == mean(losses)
                  IN  IF avg_loss.n = 0
                      THEN IntNum(100)
                      ELSE RsiFromAverages(avg_gain, avg_loss)

-----------------------------------------------------------------------------
(* SimpleAnalysisEngine._calculate_valuation_score *)

Clamp(score) == Max(1, Min(10, score))

\* the ladder with the tests in another order: `> 35` before `> 25`
PeAdjustment_StrongestFirst(pe) ==
    IF ~Truthy(pe) THEN 0
    ELSE IF NumLt(pe, IntNum(10)) THEN 2
    ELSE IF NumLt(pe, IntNum(15)) THEN 1
    ELSE IF NumGt(pe, IntNum(35)) THEN -2
    ELSE IF NumGt(pe, IntNum(25)) THEN -1
    ELSE 0

\* the if/elif ladder over stock.pe_ratio, in the order of the code
PeAdjustment(pe) ==
    IF ~Truthy(pe) THEN 0
    ELSE IF NumLt(pe, IntNum(10)) THEN 2
    ELSE IF NumLt(pe, IntNum(15)) THEN 1
    ELSE IF NumGt(pe, IntNum(25)) THEN -1
    ELSE IF NumGt(pe, IntNum(35)) THEN -2
    ELSE 0

\* the if/elif ladder over stock.dividend_yield, in the order of the code
DividendAdjustment(dy) ==
    IF ~Truthy(dy) THEN 0
    ELSE IF NumGt(dy, IntNum(3)) THEN 1
    ELSE IF NumGt(dy, IntNum(5)) THEN 2
    ELSE 0

_calculate_valuation_score(s) ==
    Clamp(5 + PeAdjustment(s.pe_ratio) + DividendAdjustment(s.dividend_yield))

-----------------------------------------------------------------------------
(* SimpleAnalysisEngine._calculate_growth_potential *)

\* market capitalisation thresholds, in units of 10^9 JPY
SmallCap == 10
LargeCap == 1000

\* the if/elif ladder over stock.price_change_percent, in the order of the code
ChangeAdjustment(pct) ==
    IF ~Truthy(pct) THEN 0
    ELSE IF NumGt(pct, IntNum(5)) THEN 1
    ELSE IF NumGt(pct, IntNum(10)) THEN 2
    ELSE IF NumLt(pct, IntNum(-5)) THEN -1
    ELSE IF NumLt(pct, IntNum(-10)) THEN -2
    ELSE 0

MarketCapAdjustment(cap) ==
    IF ~Truthy(cap) THEN 0
    ELSE IF NumLt(cap, IntNum(SmallCap)) THEN 1
    ELSE IF NumGt(cap, IntNum(LargeCap)) THEN -1
    ELSE 0

_calculate_growth_potential(s) ==
    Clamp(5 + ChangeAdjustment(price_change_percent(s)) + MarketCapAdjustment(s.market_cap))

-----------------------------------------------------------------------------
(* SimpleAnalysisEngine._assess_risk_level and _identify_risk_factors *)

B2N(b) == IF b THEN 1 ELSE 0

\* a slip in the second test: `< 10` written for `> 10`
risk_score_Below10(s, a) ==
      B2N(Truthy(a.volatility) /\ VolGt(a.volatility, 5))
    + B2N(Truthy(a.volatility) /\ NumLt(a.volatility, IntNum(10 * 10)))
    + B2N(Truthy(s.pe_ratio)
          /\ (NumGt(s.pe_ratio, IntNum(30)) \/ NumLt(s.pe_ratio, IntNum(5))))
    + B2N(Truthy(price_change_percent(s))
          /\ NumGt(NumAbs(price_change_percent(s)), IntNum(10)))

risk_score(s, a) ==
      B2N(Truthy(a.volatility) /\ VolGt(a.volatility, 5))
    + B2N(Truthy(a.volatility) /\ VolGt(a.volatility, 10))
    + B2N(Truthy(s.pe_ratio)
          /\ (NumGt(s.pe_ratio, IntNum(30)) \/ NumLt(s.pe_ratio, IntNum(5))))
    + B2N(Truthy(price_change_percent(s))
          /\ NumGt(NumAbs(price_change_percent(s)), IntNum(10)))

\* a slip in the first threshold: `>= 2` written for `>= 3`
RiskLevelOf_From2(score) ==
    IF score >= 2 THEN "high" ELSE IF score >= 1 THEN "medium" ELSE "low"

RiskLevelOf(score) ==
    IF score >= 3 THEN "high" ELSE IF score >= 1 THEN "medium" ELSE "low"

_assess_risk_level(s, a) == RiskLevelOf(risk_score(s, a))

_identify_risk_factors(s, a) ==
       (IF Truthy(a.volatility) /\ VolGt(a.volatility, 8)
        THEN <<"High price volatility">> ELSE <<>>)
    \o (IF Truthy(s.pe_ratio) /\ NumGt(s.pe_ratio, IntNum(35))
        THEN <<"High P/E ratio - potentially overvalued">> ELSE <<>>)
    \o (IF Truthy(price_change_percent(s)) /\ NumLt(price_change_percent(s), IntNum(-15))
        THEN <<"Significant recent price decline">> ELSE <<>>)
    \o (IF Truthy(a.rsi) /\ NumGt(a.rsi, IntNum(80))
        THEN <<"Overbought conditions (RSI > 80)">>
        ELSE IF Truthy(a.rsi) /\ NumLt(a.rsi, IntNum(20))
        THEN <<"Oversold conditions (RSI < 20)">> ELSE <<>>)
    \o (IF ~Truthy(s.dividend_yield) \/ NumLt(s.dividend_yield, IntNum(1))
        THEN <<"Low or no dividend yield">> ELSE <<>>)

-----------------------------------------------------------------------------
(* SimpleAnalysisEngine.analyze_stock *)

TrendOf(pct) ==
    IF NumGt(pct, IntNum(2)) THEN "up"
    ELSE IF NumLt(pct, IntNum(-2)) THEN "down"
    ELSE "sideways"

\* "Basic trend analysis": daily_return and trend_direction
WithTrend(a, s) ==
    LET pct == price_change_percent(s)
    IN  IF Truthy(pct)
        THEN [a EXCEPT !.daily_return = pct, !.trend_direction = TrendOf(pct)]
        ELSE a

\* the returns list of the volatility block; empty when the block is skipped
ReturnsOf(h) ==
    IF HistoryTruthy(h) /\ Len(h.closes) > 1 THEN DailyReturns(h.closes, 2) ELSE <<>>

\* stdev(returns) raises StatisticsError on a list of one element
StdevRaises(h) == Len(ReturnsOf(h)) = 1

\* "Calculate volatility" with the moving averages nested under `if returns:`
WithVolatility(a, h) ==
    LET returns == ReturnsOf(h)
    IN  IF returns = <<>> THEN a
        ELSE [a EXCEPT
                !.volatility = SampleVariance(returns),
                !.moving_average_5d =
                    IF Len(h.closes) >= 5 THEN mean(LastK(h.closes, 5)) ELSE None,
                !.moving_average_20d =
                    IF Len(h.closes) >= 20 THEN mean(LastK(h.closes, 20)) ELSE None]

\* the remaining statements of the try block, in order
WithScores(a, s, h) ==
    LET a1 == [a EXCEPT !.rsi = IF HistoryTruthy(h) THEN _calculate_simple_rsi(h) ELSE None]
        a2 == [a1 EXCEPT !.valuation_score = IntNum(_calculate_valuation_score(s))]
        a3 == [a2 EXCEPT !.growth_potential = IntNum(_calculate_growth_potential(s))]
        a4 == [a3 EXCEPT !.risk_level = _assess_risk_level(s, a3)]
    IN  [a4 EXCEPT !.risk_factors = _identify_risk_factors(s, a4)]

\* the Analysis returned and the exception the handler caught and logged
analyze_stock(s, h) ==
    LET a0 == WithTrend(NewAnalysis(s.symbol), s)
    IN  IF StdevRaises(h)
        THEN [analysis |-> a0, error |-> "StatisticsError"]
        ELSE [analysis |-> WithScores(WithVolatility(a0, h), s, h), error |-> "none"]

-----------------------------------------------------------------------------
(* SummaryService.generate_daily_overview.  Texts are modelled by the data *)
(* they embed.                                                             *)
(*                                                                         *)
(* Float products.  The counts are compared with total_count * 0.7, * 0.3, *)
(* * 0.6 and * 0.4, products of an int and a double.  When the exact       *)
(* product is not an integer it is at least 0.1 away from every integer    *)
(* and the rounding does not change the comparison with a count.  When it  *)
(* is an integer k: the doubles nearest 0.3, 0.6 and 0.4 are so close to   *)
(* them that the product rounds to k itself; the double nearest 0.7 is     *)
(* below 0.7 by 0.2 * 2^-52, the product before rounding is below k by     *)
(* k * (2/7) * 2^-52, and it rounds to the double just below k when that   *)
(* exceeds half the spacing 2^(e-52) of the doubles below k, where         *)
(* 2^e <= k < 2^(e+1): that is when 4 * k > 7 * 2^e.                       *)

\* the largest power of two not above k, k >= 1
RECURSIVE PowerOfTwoBelow(_)
PowerOfTwoBelow(k) == IF k < 2 THEN 1 ELSE 2 * PowerOfTwoBelow(k \div 2)

\* total_count * 0.7 is less than the exact 7 * total_count / 10
Times07RoundsDown(total_count) ==
    /\ total_count > 0
    /\ (7 * total_count) % 10 = 0
    /\ 4 * ((7 * total_count) \div 10) > 7 * PowerOfTwoBelow((7 * total_count) \div 10)

\* positive_count > total_count * 0.7
GtTimes07(positive_count, total_count) ==
    \/ 10 * positive_count > 7 * total_count
    \/ 10 * positive_count = 7 * total_count /\ Times07RoundsDown(total_count)

HasChange(s) == Truthy(price_change_percent(s))
IsPositive(s) == HasChange(s) /\ NumGt(price_change_percent(s), IntNum(0))
IsNegative(s) == HasChange(s) /\ NumLt(price_change_percent(s), IntNum(0))

SymbolsOf(ss) == [i \in 1..Len(ss) |-> ss[i].symbol]

\* sorted(xs, key=price_change_percent, reverse=descending): the element
\* at position i goes after the elements with a strictly better key and after
\* the elements with an equal key that precede it in the input (the sort is
\* stable, also with reverse=True)
SortByChange(xs, descending) ==
    LET n == Len(xs)
        key == SubSeq([i \in 1..n |-> price_change_percent(xs[i])], 1, n)
        Before(j, i) ==
            \/ IF descending THEN NumGt(key[j], key[i]) ELSE NumLt(key[j], key[i])
            \/ key[j] = key[i] /\ j < i
        place == SubSeq([i \in 1..n |->
                            1 + Cardinality({j \in 1..n : j # i /\ Before(j, i)})],
                        1, n)
    IN  [k \in 1..n |-> xs[CHOOSE i \in 1..n : place[i] = k]]

FirstThree(xs) == SubSeq(xs, 1, Min(3, Len(xs)))

top_gainers(ss) == FirstThree(SortByChange(SelectSeq(ss, HasChange), TRUE))
top_losers(ss) == FirstThree(SortByChange(SelectSeq(ss, HasChange), FALSE))

HasPe(s) == Truthy(s.pe_ratio)

\* sum(s.price_change_percent or 0 for s in stocks)
SumChanges(ss) ==
    SumNums([i \in 1..Len(ss) |->
                IF HasChange(ss[i]) THEN price_change_percent(ss[i]) ELSE IntNum(0)])

\* sum(s.pe_ratio for s in stocks if s.pe_ratio)
SumPe(ss) ==
    SumNums([i \in 1..Len(ss) |-> IF HasPe(ss[i]) THEN ss[i].pe_ratio ELSE IntNum(0)])

\* sum(s.volume or 0 for s in stocks)
SumVolume(ss) ==
    SumInts([i \in 1..Len(ss) |-> IF Truthy(ss[i].volume) THEN ss[i].volume.n ELSE 0])

IsHighRisk(a) == a.risk_level = "high"
IsStrongPerformer(s) == HasChange(s) /\ NumGt(price_change_percent(s), IntNum(5))
VolatilityAbove8(a) == Truthy(a.volatility) /\ VolGt(a.volatility, 8)
VolatilityAbove10(a) == Truthy(a.volatility) /\ VolGt(a.volatility, 10)

Insight(level, title, symbols, confidence) ==
    [level |-> level, title |-> title, stock_symbols |-> symbols, confidence |-> confidence]

\* SummaryService._add_market_insights
market_insights(ss, as) ==
    LET positive_count == Len(SelectSeq(ss, IsPositive))
        total_count    == Len(ss)
        high_vol_stocks == [i \in 1..Len(SelectSeq(as, VolatilityAbove8)) |->
                               SelectSeq(as, VolatilityAbove8)[i].stock_symbol]
    IN     (IF GtTimes07(positive_count, total_count)
            THEN <<Insight("info", "Strong Market Performance",
                           SymbolsOf(SelectSeq(ss, IsPositive)), None)>>
            ELSE IF 10 * positive_count < 3 * total_count
            THEN <<Insight("warning", "Market Weakness",
                           SymbolsOf(SelectSeq(ss, IsNegative)), None)>>
            ELSE <<>>)
        \o (IF high_vol_stocks # <<>>
            THEN <<Insight("warning", "High Volatility Alert", high_vol_stocks, Num(9, 10))>>
            ELSE <<>>)

\* a slip in the volatility rule: the threshold 8 of the insight rule is used
market_recommendations_Above8(ss, as) ==
    LET positive_count  == Len(SelectSeq(ss, IsPositive))
        total_count     == Len(ss)
        high_risk_count == Len(SelectSeq(as, IsHighRisk))
    IN     (IF 10 * positive_count > 6 * total_count
            THEN <<"Market showing positive momentum - consider increasing equity exposure">>
            ELSE IF 10 * positive_count < 4 * total_count
            THEN <<"Market weakness detected - consider defensive positioning">>
            ELSE <<>>)
        \o (IF Len(SelectSeq(as, VolatilityAbove8)) > 0
            THEN <<"Several stocks showing high volatility - use smaller position sizes">>
            ELSE <<>>)
        \o (IF 10 * high_risk_count > 3 * total_count
            THEN <<"Elevated risk levels detected - review portfolio risk management">>
            ELSE <<>>)

\* SummaryService._generate_market_recommendations
market_recommendations(ss, as) ==
    LET positive_count  == Len(SelectSeq(ss, IsPositive))
        total_count     == Len(ss)
        high_risk_count == Len(SelectSeq(as, IsHighRisk))
    IN     (IF 10 * positive_count > 6 * total_count
            THEN <<"Market showing positive momentum - consider increasing equity exposure">>
            ELSE IF 10 * positive_count < 4 * total_count
            THEN <<"Market weakness detected - consider defensive positioning">>
            ELSE <<>>)
        \o (IF Len(SelectSeq(as, VolatilityAbove10)) > 0
            THEN <<"Several stocks showing high volatility - use smaller position sizes">>
            ELSE <<>>)
        \o (IF 10 * high_risk_count > 3 * total_count
            THEN <<"Elevated risk levels detected - review portfolio risk management">>
            ELSE <<>>)

\* The outcome of generate_daily_overview: the exception it raises, in the
\* order in which the statements are executed, or the Summary it returns.
\*   executive_summary indexes top_gainers[0] and top_losers[0]: IndexError
\*   _create_detailed_market_analysis divides by the number of quotes with
\*   a P/E: ZeroDivisionError
generate_daily_overview(ss, as) ==
    IF SelectSeq(ss, HasChange) = <<>> THEN [error |-> "IndexError"]
    ELSE IF Len(SelectSeq(ss, HasPe)) = 0 THEN [error |-> "ZeroDivisionError"]
    ELSE [error            |-> "none",
          summary_type     |-> "daily_overview",
          total_stocks     |-> Len(ss),
          positive_stocks  |-> Len(SelectSeq(ss, IsPositive)),
          negative_stocks  |-> Len(SelectSeq(ss, IsNegative)),
          top_gainers      |-> SymbolsOf(top_gainers(ss)),
          top_losers       |-> SymbolsOf(top_losers(ss)),
          top_gainer       |-> top_gainers(ss)[1].name,
          top_loser        |-> top_losers(ss)[1].name,
          total_volume     |-> SumVolume(ss),
          avg_pe           |-> NumDiv(SumPe(ss), IntNum(Len(SelectSeq(ss, HasPe)))),
          strong_performers |-> SymbolsOf(SelectSeq(ss, IsStrongPerformer)),
          high_risk_count  |-> Len(SelectSeq(as, IsHighRisk)),
          average_change   |-> NumDiv(SumChanges(ss), IntNum(Len(ss))),
          market_sentiment |-> IF Len(SelectSeq(ss, IsPositive)) > Len(SelectSeq(ss, IsNegative))
                               THEN "Positive" ELSE "Negative",
          stocks_analyzed  |-> SymbolsOf(ss),
          analysis_period  |-> "1 day",
          confidence_score |-> Num(8, 10),
          created_at       |-> Now,
          insights         |-> market_insights(ss, as),
          recommendations  |-> market_recommendations(ss, as)]

-----------------------------------------------------------------------------
(* SummaryService.generate_stock_analysis_summary.  A rendered text is the  *)
(* record of what it shows: "N/A", or the value formatted into it.          *)

NotAvailable == [text |-> "N/A", value |-> None]
Rendered(x) == [text |-> "value", value |-> x]

\* the same for the texts that show a label
NotAvailableLabel == [text |-> "N/A", label |-> ""]
RenderedLabel(l) == [text |-> "value", label |-> l]

\* f"+{daily_return:.2f}%" if positive, else f"{daily_return:.2f}%"
change_text(a) ==
    [sign  |-> IF Truthy(a.daily_return) /\ NumGt(a.daily_return, IntNum(0))
               THEN "+" ELSE "",
     value |-> Round2(a.daily_return)]

trend_text(a) == IF a.trend_direction # "none" THEN a.trend_direction ELSE "sideways"

risk_text(a) == IF a.risk_level # "none" THEN a.risk_level ELSE "medium"

key_metrics(s, a) ==
    [current_price |-> Rendered(s.current_price),
     daily_change  |-> IF Truthy(a.daily_return)
                       THEN Rendered(Round2(a.daily_return)) ELSE NotAvailable,
     pe_ratio      |-> IF Truthy(s.pe_ratio) THEN Rendered(s.pe_ratio) ELSE NotAvailable,
     market_cap    |-> IF Truthy(s.market_cap) THEN Rendered(s.market_cap) ELSE NotAvailable,
     risk_level    |-> IF a.risk_level # "none"
                       THEN RenderedLabel(a.risk_level) ELSE NotAvailableLabel,
     rsi           |-> IF Truthy(a.rsi) THEN Rendered(a.rsi) ELSE NotAvailable]

\* SummaryService._create_detailed_stock_analysis: the parts joined
detailed_stock_analysis(s, a) ==
       (IF Truthy(price_change_percent(s)) THEN <<"Price Movement">> ELSE <<>>)
    \o (IF Truthy(a.moving_average_5d) /\ Truthy(a.moving_average_20d)
        THEN <<IF NumGt(a.moving_average_5d, a.moving_average_20d)
               THEN "Technical: above" ELSE "Technical: below">>
        ELSE <<>>)
    \o (IF Truthy(s.pe_ratio)
        THEN <<IF NumLt(s.pe_ratio, IntNum(15)) THEN "Valuation: undervalued"
               ELSE IF NumGt(s.pe_ratio, IntNum(25)) THEN "Valuation: overvalued"
               ELSE "Valuation: fairly valued">>
        ELSE <<>>)
    \o (IF a.risk_factors # <<>> THEN <<"Risk Factors">> ELSE <<>>)

\* SummaryService._add_stock_insights
stock_insights(s, a) ==
       (IF Truthy(a.rsi) /\ NumGt(a.rsi, IntNum(80))
        THEN <<Insight("warning", "Overbought Condition", <<s.symbol>>, Num(8, 10))>>
        ELSE IF Truthy(a.rsi) /\ NumLt(a.rsi, IntNum(20))
        THEN <<Insight("info", "Oversold Condition", <<s.symbol>>, Num(8, 10))>>
        ELSE <<>>)
    \o (IF Truthy(price_change_percent(s))
           /\ NumGt(NumAbs(price_change_percent(s)), IntNum(10))
        THEN <<Insight(IF NumGt(NumAbs(price_change_percent(s)), IntNum(20))
                       THEN "critical" ELSE "warning",
                       "Significant Price Movement", <<s.symbol>>, Num(9, 10))>>
        ELSE <<>>)

\* SummaryService._generate_stock_recommendations
stock_recommendations(s, a) ==
       (IF Truthy(a.rsi) /\ NumGt(a.rsi, IntNum(80)) /\ a.trend_direction = "up"
        THEN <<"Consider taking profits - stock may be overbought">>
        ELSE IF Truthy(a.rsi) /\ NumLt(a.rsi, IntNum(30)) /\ a.trend_direction = "down"
        THEN <<"Potential buying opportunity - stock may be oversold">>
        ELSE <<>>)
    \o (IF Truthy(a.valuation_score) /\ NumGe(a.valuation_score, IntNum(8))
        THEN <<"Stock appears undervalued based on fundamental metrics">>
        ELSE IF Truthy(a.valuation_score) /\ NumLe(a.valuation_score, IntNum(3))
        THEN <<"Stock may be overvalued - exercise caution">>
        ELSE <<>>)
    \o (IF a.risk_level = "high"
        THEN <<"High risk detected - use appropriate position sizing">> ELSE <<>>)
    \o (IF Truthy(a.growth_potential) /\ NumGe(a.growth_potential, IntNum(8))
        THEN <<"Strong growth potential identified - consider for growth portfolio">>
        ELSE <<>>)

\* the Summary returned, or the exception raised:
\*   the else branch of change_text formats daily_return with :.2f also when
\*   it is None: TypeError
generate_stock_analysis_summary(s, a) ==
    IF ~a.daily_return.some THEN [error |-> "TypeError"]
    ELSE [error             |-> "none",
          summary_type      |-> "stock_analysis",
          price_text        |-> Rendered(s.current_price),
          change_text       |-> change_text(a),
          trend_text        |-> trend_text(a),
          risk_text         |-> risk_text(a),
          detailed_analysis |-> detailed_stock_analysis(s, a),
          key_metrics       |-> key_metrics(s, a),
          stocks_analyzed   |-> <<s.symbol>>,
          analysis_period   |-> "1 day",
          confidence_score  |-> Num(7, 10),
          created_at        |-> Now,
          insights          |-> stock_insights(s, a),
          recommendations   |-> stock_recommendations(s, a)]

NoSummary == [error |-> "not called"]

-----------------------------------------------------------------------------
(* Inputs *)

\* longest history prefix enumerated exhaustively
MaxPrefix == 3

Closes == {0, 50, 100, 110}

\* lengths to which a prefix is extended by repeating its last close
HistoryLengths == {4, 5, RSI_PERIOD, RSI_PERIOD + 1, 20}

Prefixes == UNION {[1..m -> Closes] : m \in 0..MaxPrefix}

Pad(prefix, len) ==
    IF prefix = <<>> \/ len <= Len(prefix) THEN prefix
    ELSE prefix \o [i \in 1..(len - Len(prefix)) |-> prefix[Len(prefix)]]

HistoryInputs ==
    {NoHistory} \cup {History(p) : p \in Prefixes}
                \cup {History(Pad(p, len)) : p \in Prefixes, len \in HistoryLengths}

\* no history, and the shortest history on which stdev raises
ShortHistoryInputs == {NoHistory, History(<<100, 110>>)}

Opt(values) == {None} \cup {IntNum(v) : v \in values}

\* <<current_price, previous_close>>
PriceInputs ==
    ({None} \cup {IntNum(c) : c \in {0, 84, 85, 89, 90, 94, 95, 97, 98, 100,
                                     102, 103, 105, 106, 110, 111}})
        \X {IntNum(100)}
    \cup (Opt({0, 100}) \X Opt({0}))

PeInputs == Opt({0, 4, 5, 10, 15, 25, 26, 30, 31, 35, 36})

DividendInputs == Opt({0, 1, 3, 4, 5, 6}) \cup {Num(1, 2)}

\* in units of 10^9 JPY
MarketCapInputs == Opt({0, 5, SmallCap, 500, LargeCap, 2000})

MkStock(symbol, current_price, previous_close, market_cap, pe_ratio, dividend_yield) ==
    [symbol         |-> symbol,
     name           |-> symbol,
     current_price  |-> current_price,
     previous_close |-> previous_close,
     volume         |-> None,
     market_cap     |-> market_cap,
     pe_ratio       |-> pe_ratio,
     dividend_yield |-> dividend_yield,
     last_updated   |-> Now]

\* quotes varying the fields each score depends on together
StockInputs ==
         {MkStock("7203.T", p[1], p[2], None, pe, None) : p \in PriceInputs, pe \in PeInputs}
    \cup {MkStock("7203.T", IntNum(103), IntNum(100), None, pe, dy) :
              pe \in PeInputs, dy \in DividendInputs}
    \cup {MkStock("7203.T", p[1], p[2], cap, None, None) :
              p \in PriceInputs, cap \in MarketCapInputs}

\* quotes analysed with every history
RiskStockInputs ==
    {MkStock("7203.T", IntNum(c), IntNum(100), None, pe, None) :
         c \in {0, 84, 100, 103, 111}, pe \in Opt({0, 4, 31})}

AnalyzeInputs ==
    (StockInputs \X ShortHistoryInputs) \cup (RiskStockInputs \X HistoryInputs)

NoOverview == [error |-> "not called"]

-----------------------------------------------------------------------------
(* SQLiteRepository: tables stocks and summaries.  A table is the set of   *)
(* its rows.  A REAL column holds the number stored; reading a REAL back   *)
(* into a Decimal field gives the same number for the values used here.    *)

\* datetime.isoformat(): the fraction is written only when it is not 0
isoformat(t) ==
    IF t.microsecond = 0 THEN <<t.second>> ELSE <<t.second, t.microsecond>>

\* datetime.fromisoformat(): a missing fraction reads as 0
fromisoformat(text) ==
    DateTime(text[1], IF Len(text) = 2 THEN text[2] ELSE 0)

\* float(x) if x else None
float_or_null(x) == IF Truthy(x) THEN x ELSE None

\* the parameters of the INSERT of save_stock
StockRow(s) ==
    [symbol         |-> s.symbol,
     name           |-> s.name,
     current_price  |-> float_or_null(s.current_price),
     previous_close |-> float_or_null(s.previous_close),
     volume         |-> s.volume,
     market_cap     |-> s.market_cap,
     pe_ratio       |-> float_or_null(s.pe_ratio),
     dividend_yield |-> float_or_null(s.dividend_yield),
     last_updated   |-> isoformat(s.last_updated)]

\* INSERT OR REPLACE on primary key symbol
save_stock(table, s) ==
    {r \in table : r.symbol # s.symbol} \cup {StockRow(s)}

\* Stock(symbol=row[0], ..., last_updated=datetime.fromisoformat(row[8]))
RowToStock(row) ==
    [symbol         |-> row.symbol,
     name           |-> row.name,
     current_price  |-> row.current_price,
     previous_close |-> row.previous_close,
     volume         |-> row.volume,
     market_cap     |-> row.market_cap,
     pe_ratio       |-> row.pe_ratio,
     dividend_yield |-> row.dividend_yield,
     last_updated   |-> fromisoformat(row.last_updated)]

NoStock == MkStock("", None, None, None, None, None)

\* the result of get_stock: the Stock of the row fetched, or None
get_stock(table, symbol) ==
    LET rows == {r \in table : r.symbol = symbol}
    IN  IF rows = {} THEN [found |-> FALSE, stock |-> NoStock]
        ELSE [found |-> TRUE, stock |-> RowToStock(CHOOSE r \in rows : TRUE)]

NotAsked == [symbol |-> "", found |-> FALSE, stock |-> NoStock]

\* the names of the quotes in the order of ORDER BY name
NamesInOrder == <<"6758.T", "6861.T", "7203.T", "8306.T", "9984.T">>

\* get_all_stocks: SELECT ... FROM stocks ORDER BY name
get_all_stocks(table) ==
    LET present == SelectSeq(NamesInOrder, LAMBDA n : \E r \in table : r.name = n)
    IN  [i \in 1..Len(present) |->
            RowToStock(CHOOSE r \in table : r.name = present[i])]

\* json.dumps of a list, and json.loads of the text when the column holds
\* a non-empty string (the text of a list is never the empty string)
json_dumps(xs) == [json |-> xs]
json_loads(text) == text.json

\* the parameters of the INSERT of save_summary that the model keeps
SummaryRow(id, s) ==
    [id               |-> id,
     summary_type     |-> s.summary_type,
     created_at       |-> isoformat(s.created_at),
     insights         |-> json_dumps(s.insights),
     recommendations  |-> json_dumps(s.recommendations),
     stocks_analyzed  |-> json_dumps(s.stocks_analyzed),
     analysis_period  |-> s.analysis_period,
     confidence_score |-> s.confidence_score]

\* INSERT OR REPLACE on primary key id
save_summary(table, id, s) ==
    {r \in table : r.id # id} \cup {SummaryRow(id, s)}

\* Summary(id=row[0], ..., insights=[], ...): the insights column is not read
RowToSummary(row) ==
    [id               |-> row.id,
     summary_type     |-> row.summary_type,
     created_at       |-> fromisoformat(row.created_at),
     insights         |-> <<>>,
     recommendations  |-> json_loads(row.recommendations),
     stocks_analyzed  |-> json_loads(row.stocks_analyzed),
     analysis_period  |-> row.analysis_period,
     confidence_score |-> row.confidence_score]

\* the order of two created_at texts: character by character, a text that
\* is the beginning of another one coming first
TextLt(a, b) ==
    \/ a[1] < b[1]
    \/ a[1] = b[1] /\ Len(a) < Len(b)
    \/ a[1] = b[1] /\ Len(a) = 2 /\ Len(b) = 2 /\ a[2] < b[2]

\* a slip in the query: ORDER BY created_at without DESC
get_latest_summaries_Ascending(table, limit) ==
    LET n == Min(limit, Cardinality(table))
        rows == {r \in [1..n -> table] :
                    /\ \A i, j \in 1..n : i < j =>
                           r[i] # r[j] /\ ~TextLt(r[j].created_at, r[i].created_at)
                    /\ \A x \in table : (\A i \in 1..n : r[i] # x) =>
                           \A i \in 1..n : ~TextLt(x.created_at, r[i].created_at)}
    IN  {[i \in 1..n |-> RowToSummary(r[i])] : r \in rows}

\* get_latest_summaries: SELECT ... ORDER BY created_at DESC LIMIT ?, limit
\* >= 0.  The order of rows with equal created_at is not determined: the
\* results are all the lists the query can give.
get_latest_summaries(table, limit) ==
    LET n == Min(limit, Cardinality(table))
        rows == {r \in [1..n -> table] :
                    /\ \A i, j \in 1..n : i < j =>
                           r[i] # r[j] /\ ~TextLt(r[i].created_at, r[j].created_at)
                    /\ \A x \in table : (\A i \in 1..n : r[i] # x) =>
                           \A i \in 1..n : ~TextLt(r[i].created_at, x.created_at)}
    IN  {[i \in 1..n |-> RowToSummary(r[i])] : r \in rows}

NoneAsked == [limit |-> 0, summaries |-> <<>>]

-----------------------------------------------------------------------------
(* Analysis of one quote *)

Init ==
    /\ \E in \in AnalyzeInputs : stock = in[1] /\ historical_data = in[2]
    /\ analysis = NewAnalysis("")
    /\ analysis_error = "none"
    /\ rsi_ret = None
    /\ pc = "start"
    /\ stocks = <<>>
    /\ analyses = <<>>
    /\ overview = NoOverview
    /\ summary = NoSummary
    /\ stocks_table = {}
    /\ summaries_table = {}
    /\ save_ret = FALSE
    /\ get_ret = NotAsked
    /\ latest_ret = NoneAsked
    /\ analysis_table = <<>>
    /\ symbol_option = ""

\* analysis = engine.analyze_stock(stock, historical_data)
AnalyzeStock ==
    /\ pc = "start"
    /\ analysis' = analyze_stock(stock, historical_data).analysis
    /\ analysis_error' = analyze_stock(stock, historical_data).error
    /\ pc' = "analyzed"
    /\ UNCHANGED <<stock, historical_data, rsi_ret, stocks, analyses, overview,
                   summary, repository, symbol_option>>

\* rsi_ret = engine._calculate_simple_rsi(historical_data)
CalculateSimpleRsi ==
    /\ pc = "start"
    /\ rsi_ret' = _calculate_simple_rsi(historical_data)
    /\ pc' = "rsi_returned"
    /\ UNCHANGED <<stock, historical_data, analysis, analysis_error,
                   stocks, analyses, overview, summary, repository,
                   symbol_option>>

\* summary = summary_service.generate_stock_analysis_summary(stock, analysis)
GenerateStockAnalysisSummary ==
    /\ pc = "analyzed"
    /\ summary' = generate_stock_analysis_summary(stock, analysis)
    /\ pc' = "summarized"
    /\ UNCHANGED <<stock, historical_data, analysis, analysis_error, rsi_ret,
                   stocks, analyses, overview, repository, symbol_option>>

Next == AnalyzeStock \/ CalculateSimpleRsi \/ GenerateStockAnalysisSummary

Spec == Init /\ [][Next]_vars

-----------------------------------------------------------------------------
(* Properties of the analysis of one quote *)

InScoreRange(x) == x.some /\ x.d = 1 /\ x.n >= 1 /\ x.n <= 10

\* C1: for every quote and every optional history, the Analysis returned by
\* analyze_stock has valuation_score and growth_potential defined, integer
\* and in [1,10].
C1_ScoresAlwaysDefined ==
    pc = "analyzed" =>
        InScoreRange(analysis.valuation_score) /\ InScoreRange(analysis.growth_potential)

\* C2: when a step of analyze_stock fails, the Analysis returned is for the
\* quote's symbol and its valuation and growth scores are the neutral 5.
C2_DegradedScoresNeutral ==
    (pc = "analyzed" /\ analysis_error # "none") =>
        /\ analysis.stock_symbol = stock.symbol
        /\ analysis.valuation_score = IntNum(5)
        /\ analysis.growth_potential = IntNum(5)

\* the percentage change of the data model: (current - previous) / previous * 100,
\* defined when the current price is defined and the previous close is > 0
ChangeDefined(s) ==
    s.current_price.some /\ s.previous_close.some /\ s.previous_close.n > 0

ChangeValue(s) ==
    Num(100 * (s.current_price.n * s.previous_close.d
               - s.previous_close.n * s.current_price.d),
        s.current_price.d * s.previous_close.n)

\* C5: for a quote with a defined current price (0 included) and a previous
\* close > 0, price_change_percent is (current - previous) / previous * 100;
\* it is undefined when the previous close is 0 or absent.
C5_PriceChangePercent ==
    pc = "analyzed" =>
        /\ ChangeDefined(stock) => price_change_percent(stock) = ChangeValue(stock)
        /\ (~stock.previous_close.some \/ stock.previous_close.n = 0)
               => price_change_percent(stock) = None

\* no close-to-close decrease among the first k closes
NoDecrease(cs, k) == \A i \in 2..k : cs[i] >= cs[i - 1]

StatedPeAdjustment(pe) ==
    IF ~pe.some THEN 0
    ELSE IF NumLt(pe, IntNum(10)) THEN 2
    ELSE IF NumLt(pe, IntNum(15)) THEN 1
    ELSE IF NumGt(pe, IntNum(35)) THEN -2
    ELSE IF NumGt(pe, IntNum(25)) THEN -1
    ELSE 0

StatedDividendAdjustment(dy) ==
    IF ~dy.some THEN 0
    ELSE IF NumGt(dy, IntNum(5)) THEN 2
    ELSE IF NumGt(dy, IntNum(3)) THEN 1
    ELSE 0

\* C7: the valuation score is clamp(5 + peAdj + divAdj, 1, 10) with peAdj
\* +2 for P/E < 10, +1 for 10 <= P/E < 15, -2 for P/E > 35, -1 for
\* 25 < P/E <= 35, and divAdj +2 for yield > 5, +1 for 3 < yield <= 5.
C7_ValuationScore ==
    (pc = "analyzed" /\ analysis_error = "none") =>
        analysis.valuation_score =
            IntNum(Max(1, Min(10, 5 + StatedPeAdjustment(stock.pe_ratio)
                                    + StatedDividendAdjustment(stock.dividend_yield))))

StatedChangeAdjustment(s) ==
    IF ~ChangeDefined(s) THEN 0
    ELSE IF NumGt(ChangeValue(s), IntNum(10)) THEN 2
    ELSE IF NumGt(ChangeValue(s), IntNum(5)) THEN 1
    ELSE IF NumLt(ChangeValue(s), IntNum(-10)) THEN -2
    ELSE IF NumLt(ChangeValue(s), IntNum(-5)) THEN -1
    ELSE 0

StatedCapAdjustment(cap) ==
    IF ~cap.some THEN 0
    ELSE IF NumLt(cap, IntNum(SmallCap)) THEN 1
    ELSE IF NumGt(cap, IntNum(LargeCap)) THEN -1
    ELSE 0

\* C8: the growth score is clamp(5 + chgAdj + capAdj, 1, 10) with chgAdj +2
\* for change > 10, +1 for 5 < change <= 10, -2 for change < -10, -1 for
\* -10 <= change < -5, and capAdj +1 for market cap < 10 billion, -1 for
\* market cap > 1 trillion.
C8_GrowthScore ==
    (pc = "analyzed" /\ analysis_error = "none") =>
        analysis.growth_potential =
            IntNum(Max(1, Min(10, 5 + StatedChangeAdjustment(stock)
                                    + StatedCapAdjustment(stock.market_cap))))

\* C9: trend is up for a change > 2, down for a change < -2, sideways for
\* every other computable change (0, 2 and -2 included), and undefined only
\* when the change cannot be computed.
C9_Trend ==
    pc = "analyzed" =>
        analysis.trend_direction =
            IF ~ChangeDefined(stock) THEN "none"
            ELSE IF NumGt(ChangeValue(stock), IntNum(2)) THEN "up"
            ELSE IF NumLt(ChangeValue(stock), IntNum(-2)) THEN "down"
            ELSE "sideways"

\* the risk score as the sum of the four stated indicators
StatedRiskScore(s, a) ==
      (IF a.volatility.some /\ NumGt(a.volatility, IntNum(25)) THEN 1 ELSE 0)
    + (IF a.volatility.some /\ NumGt(a.volatility, IntNum(100)) THEN 1 ELSE 0)
    + (IF s.pe_ratio.some
          /\ (NumGt(s.pe_ratio, IntNum(30)) \/ NumLt(s.pe_ratio, IntNum(5)))
       THEN 1 ELSE 0)
    + (IF ChangeDefined(s) /\ NumGt(NumAbs(ChangeValue(s)), IntNum(10)) THEN 1 ELSE 0)

\* C10: the risk score is the sum of [volatility > 5], [volatility > 10],
\* [P/E > 30 or P/E < 5] and [|change| > 10], absent values counting 0; the
\* level is high iff the score is >= 3, medium iff 1 or 2, low iff 0.
C10_RiskLevel ==
    (pc = "analyzed" /\ analysis_error = "none") =>
        LET score == StatedRiskScore(stock, analysis)
        IN  /\ analysis.risk_level = "high" <=> score >= 3
            /\ analysis.risk_level = "medium" <=> score \in {1, 2}
            /\ analysis.risk_level = "low" <=> score = 0

-----------------------------------------------------------------------------
\* volatilities a caller may find in place of the computed one
VolatilityLevels == {0, 1, 5, 6, 8, 9, 10, 11, 20}

\* the analysis with volatility v (the field holds the variance v^2)
WithVolatilityOf(a, v) == [a EXCEPT !.volatility = IntNum(v * v)]

LevelRank(level) == IF level = "high" THEN 2 ELSE IF level = "medium" THEN 1 ELSE 0

StatedRiskFactors(s, a) ==
       (IF a.volatility.some /\ VolGt(a.volatility, 8)
        THEN <<"High price volatility">> ELSE <<>>)
    \o (IF s.pe_ratio.some /\ NumGt(s.pe_ratio, IntNum(35))
        THEN <<"High P/E ratio - potentially overvalued">> ELSE <<>>)
    \o (IF price_change_percent(s).some /\ NumLt(price_change_percent(s), IntNum(-15))
        THEN <<"Significant recent price decline">> ELSE <<>>)
    \o (IF a.rsi.some /\ NumGt(a.rsi, IntNum(80))
        THEN <<"Overbought conditions (RSI > 80)">>
        ELSE IF a.rsi.some /\ NumLt(a.rsi, IntNum(20))
        THEN <<"Oversold conditions (RSI < 20)">> ELSE <<>>)
    \o (IF ~s.dividend_yield.some \/ NumLt(s.dividend_yield, IntNum(1))
        THEN <<"Low or no dividend yield">> ELSE <<>>)

\* C12: the risk-factor list holds, in the fixed order volatility, P/E,
\* decline, RSI, dividend, exactly the factors whose condition holds:
\* volatility > 8; P/E > 35; change < -15; RSI > 80 (overbought) or else
\* RSI < 20 (oversold, for every defined RSI below 20, RSI = 0 included);
\* dividend yield missing or < 1.  Overbought and oversold never both appear.
C12_RiskFactors ==
    (pc = "analyzed" /\ analysis_error = "none") =>
        /\ analysis.risk_factors = StatedRiskFactors(stock, analysis)
        /\ ~(\E i, j \in 1..Len(analysis.risk_factors) :
               /\ analysis.risk_factors[i] = "Overbought conditions (RSI > 80)"
               /\ analysis.risk_factors[j] = "Oversold conditions (RSI < 20)")

\* the number of points of the history given, 0 when none was given
HistoryPoints(h) == IF h.given THEN Len(h.closes) ELSE 0

\* C13: moving_average_5d (resp. moving_average_20d) is defined whenever the
\* history has at least 5 (resp. 20) points, whether or not the volatility
\* could be computed, and is then the arithmetic mean of the last 5 (resp.
\* 20) closes; with fewer points it is undefined.
C13_MovingAverages ==
    pc = "analyzed" =>
        /\ analysis.moving_average_5d =
               IF HistoryPoints(historical_data) >= 5
               THEN mean(LastK(historical_data.closes, 5)) ELSE None
        /\ analysis.moving_average_20d =
               IF HistoryPoints(historical_data) >= 20
               THEN mean(LastK(historical_data.closes, 20)) ELSE None

\* the number of consecutive pairs of the history whose prior close is > 0
ValidReturnCount(h) ==
    IF h.given
    THEN Cardinality({i \in 2..Len(h.closes) : h.closes[i - 1] > 0})
    ELSE 0

\* C20: the volatility is defined iff the history yields at least 2 valid
\* returns; with fewer the analysis completes normally with the volatility
\* undefined, and the later fields (RSI when a history was given, valuation
\* and growth scores, risk level, risk factors) are still computed.
C20_VolatilityDefined ==
    pc = "analyzed" =>
        /\ analysis.volatility.some <=> ValidReturnCount(historical_data) >= 2
        /\ analysis_error = "none"
        /\ HistoryPoints(historical_data) > 0 => analysis.rsi.some
        /\ analysis.valuation_score.some
        /\ analysis.growth_potential.some
        /\ analysis.risk_level \in {"low", "medium", "high"}
        /\ analysis.risk_factors = _identify_risk_factors(stock, analysis)

\* C15: generate_stock_analysis_summary returns a report for every quote and
\* analysis, also when the daily return, RSI, risk level or trend of the
\* analysis or the price, P/E or market cap of the quote is undefined; each
\* key metric (price, change, P/E, market cap, risk level, RSI) shows "N/A"
\* exactly when its value is undefined, a defined value such as RSI 0 being
\* shown as the value; the executive summary shows risk label "medium" when
\* the risk level is undefined.
C15_StockSummary ==
    pc = "summarized" =>
        /\ summary.error = "none"
        /\ summary.key_metrics.current_price.text = "N/A" <=> ~stock.current_price.some
        /\ summary.key_metrics.daily_change.text = "N/A" <=> ~analysis.daily_return.some
        /\ summary.key_metrics.pe_ratio.text = "N/A" <=> ~stock.pe_ratio.some
        /\ summary.key_metrics.market_cap.text = "N/A" <=> ~stock.market_cap.some
        /\ summary.key_metrics.risk_level.text = "N/A" <=> analysis.risk_level = "none"
        /\ summary.key_metrics.rsi.text = "N/A" <=> ~analysis.rsi.some
        /\ analysis.risk_level = "none" => summary.risk_text = "medium"

\* the RSI over the consecutive pairs among the first min(len, period + 1)
\* points of a non-empty history, whatever its length
StatedRsi(h) ==
    LET last   == Min(Len(h.closes), RSI_PERIOD + 1)
        gains  == Gains(h.closes, 2, last)
        losses == Losses(h.closes, 2, last)
    IN  IF gains = <<>> \/ losses = <<>> THEN IntNum(50)
        ELSE IF mean(losses).n = 0 THEN IntNum(100)
        ELSE RsiFromAverages(mean(gains), mean(losses))

\* C21: for a non-empty history of any length the RSI is computed over the
\* consecutive pairs among its first min(len, 15) points, so a history of 2
\* to 14 points gives a computed value (100 when every change is positive)
\* and not the neutral 50; with no history the RSI of the analysis is
\* undefined.
C21_RsiWindow ==
    /\ (pc = "rsi_returned" /\ HistoryPoints(historical_data) > 0) =>
           rsi_ret = StatedRsi(historical_data)
    /\ (pc = "analyzed" /\ analysis_error = "none") =>
           analysis.rsi = IF HistoryPoints(historical_data) > 0
                          THEN StatedRsi(historical_data) ELSE None

\* level, title and confidence of each insight, in order
InsightFacts(insights) ==
    [i \in 1..Len(insights) |->
        <<insights[i].level, insights[i].title, insights[i].confidence>>]

\* C24: the insights of the stock summary are: a warning "overbought"
\* (confidence 0.8) iff RSI > 80; an info "oversold" (confidence 0.8) iff the
\* RSI is defined and < 20, RSI = 0 included; one price-movement insight with
\* confidence 0.9 iff |change| > 10, critical when |change| > 20 and warning
\* otherwise; the RSI insight comes first, and there is at most one of each.
C24_StockInsights ==
    (pc = "summarized" /\ summary.error = "none") =>
        InsightFacts(summary.insights) =
               (IF analysis.rsi.some /\ NumGt(analysis.rsi, IntNum(80))
                THEN <<<<"warning", "Overbought Condition", Num(8, 10)>>>>
                ELSE IF analysis.rsi.some /\ NumLt(analysis.rsi, IntNum(20))
                THEN <<<<"info", "Oversold Condition", Num(8, 10)>>>>
                ELSE <<>>)
            \o (IF ChangeDefined(stock) /\ NumGt(NumAbs(ChangeValue(stock)), IntNum(10))
                THEN <<<<IF NumGt(NumAbs(ChangeValue(stock)), IntNum(20))
                         THEN "critical" ELSE "warning",
                         "Significant Price Movement", Num(9, 10)>>>>
                ELSE <<>>)

\* C25: the recommendations of the stock summary are, in this order, exactly
\* the notes whose rule holds: take-profits iff RSI > 80 and trend = up;
\* buying-opportunity iff RSI < 30 (RSI = 0 included) and trend = down;
\* undervalued iff valuation score >= 8; overvalued-caution iff valuation
\* score <= 3; sizing iff risk = high; growth-portfolio iff growth
\* potential >= 8.
C25_StockRecommendations ==
    (pc = "summarized" /\ summary.error = "none") =>
        summary.recommendations =
               (IF analysis.rsi.some /\ NumGt(analysis.rsi, IntNum(80))
                   /\ analysis.trend_direction = "up"
                THEN <<"Consider taking profits - stock may be overbought">> ELSE <<>>)
            \o (IF analysis.rsi.some /\ NumLt(analysis.rsi, IntNum(30))
                   /\ analysis.trend_direction = "down"
                THEN <<"Potential buying opportunity - stock may be oversold">> ELSE <<>>)
            \o (IF analysis.valuation_score.some
                   /\ NumGe(analysis.valuation_score, IntNum(8))
                THEN <<"Stock appears undervalued based on fundamental metrics">> ELSE <<>>)
            \o (IF analysis.valuation_score.some
                   /\ NumLe(analysis.valuation_score, IntNum(3))
                THEN <<"Stock may be overvalued - exercise caution">> ELSE <<>>)
            \o (IF analysis.risk_level = "high"
                THEN <<"High risk detected - use appropriate position sizing">> ELSE <<>>)
            \o (IF analysis.growth_potential.some
                   /\ NumGe(analysis.growth_potential, IntNum(8))
                THEN <<"Strong growth potential identified - consider for growth portfolio">>
                ELSE <<>>)


\* the scores before the clamp
ValuationBeforeClamp(s) == 5 + PeAdjustment(s.pe_ratio) + DividendAdjustment(s.dividend_yield)
GrowthBeforeClamp(s) ==
    5 + ChangeAdjustment(price_change_percent(s)) + MarketCapAdjustment(s.market_cap)

\* C30: for every quote the valuation score of _calculate_valuation_score
\* lies in 4..8 and the growth score of _calculate_growth_potential lies in
\* 3..7, so the clamp to [1, 10] leaves both scores as they were computed.
C30_ScoresInsideClamp ==
    /\ ValuationBeforeClamp(stock) \in 4..8
    /\ _calculate_valuation_score(stock) = ValuationBeforeClamp(stock)
    /\ GrowthBeforeClamp(stock) \in 3..7
    /\ _calculate_growth_potential(stock) = GrowthBeforeClamp(stock)
    /\ (pc \in {"analyzed", "summarized"} /\ analysis_error = "none") =>
           /\ analysis.valuation_score = IntNum(ValuationBeforeClamp(stock))
           /\ analysis.growth_potential = IntNum(GrowthBeforeClamp(stock))

\* a quote with a P/E above 35 and a rise above 10% was analysed: the scores
\* are the lowest valuation and a growth one above neutral
C30_Witness ==
    /\ pc = "analyzed"
    /\ analysis_error = "none"
    /\ NumGt(stock.pe_ratio, IntNum(35))
    /\ NumGt(price_change_percent(stock), IntNum(10))
    /\ analysis.valuation_score = IntNum(4)
    /\ analysis.growth_potential = IntNum(6)

-----------------------------------------------------------------------------
(* Batch analysis followed by the daily overview *)

\* longest quote list
MaxStocks == 3

SymbolAt(i) == <<"7203.T", "6758.T", "9984.T", "8306.T", "6861.T">>[i]

\* the quotes that can stand at position i of the list
BatchStockInputs(i) ==
    {MkStock(SymbolAt(i), c, IntNum(100), None, pe, None) :
         c \in Opt({97, 100, 103, 111}), pe \in Opt({31})}

\* the lists of exactly m quotes
RECURSIVE StockListsOfLen(_)
StockListsOfLen(m) ==
    IF m = 0 THEN {<<>>}
    ELSE {Append(ss, s) : ss \in StockListsOfLen(m - 1), s \in BatchStockInputs(m)}

\* the lists of at most longest quotes
StockLists(longest) == UNION {StockListsOfLen(m) : m \in 0..longest}

InitBatch ==
    /\ stocks \in StockLists(MaxStocks)
    /\ analyses = <<>>
    /\ overview = NoOverview
    /\ pc = "batch"
    /\ stock = MkStock("", None, None, None, None, None)
    /\ historical_data = NoHistory
    /\ analysis = NewAnalysis("")
    /\ analysis_error = "none"
    /\ rsi_ret = None
    /\ summary = NoSummary
    /\ stocks_table = {}
    /\ summaries_table = {}
    /\ save_ret = FALSE
    /\ get_ret = NotAsked
    /\ latest_ret = NoneAsked
    /\ analysis_table = <<>>
    /\ symbol_option = ""

\* a slip in the loop: the new result is put in front of the list
AnalyzeNext_Prepend ==
    /\ pc = "batch"
    /\ Len(analyses) < Len(stocks)
    /\ analyses' = <<analyze_stock(stocks[Len(analyses) + 1], NoHistory).analysis>> \o analyses
    /\ UNCHANGED <<stock, historical_data, analysis, analysis_error, rsi_ret, pc,
                   stocks, overview, summary, repository, symbol_option>>

\* one iteration of the loop of analyze_multiple_stocks
AnalyzeNext ==
    /\ pc = "batch"
    /\ Len(analyses) < Len(stocks)
    /\ analyses' = Append(analyses, analyze_stock(stocks[Len(analyses) + 1], NoHistory).analysis)
    /\ UNCHANGED <<stock, historical_data, analysis, analysis_error, rsi_ret, pc,
                   stocks, overview, summary, repository, symbol_option>>

\* analyze_multiple_stocks returns
BatchReturn ==
    /\ pc = "batch"
    /\ Len(analyses) = Len(stocks)
    /\ pc' = "batch_done"
    /\ UNCHANGED <<stock, historical_data, analysis, analysis_error, rsi_ret,
                   stocks, analyses, overview, summary, repository,
                   symbol_option>>

\* a slip in the service: the overview generated is written to the store
GenerateDailyOverview_Saving ==
    /\ pc = "batch_done"
    /\ overview' = generate_daily_overview(stocks, analyses)
    /\ summaries_table' =
           IF generate_daily_overview(stocks, analyses).error = "none"
           THEN save_summary(summaries_table, "uuid-1",
                             generate_daily_overview(stocks, analyses))
           ELSE summaries_table
    /\ pc' = "overview_done"
    /\ UNCHANGED <<stock, historical_data, analysis, analysis_error, rsi_ret,
                   stocks, analyses, summary, stocks_table, save_ret, get_ret,
                   latest_ret, analysis_table, symbol_option>>

\* summary = summary_service.generate_daily_overview(stocks, analyses)
GenerateDailyOverview ==
    /\ pc = "batch_done"
    /\ overview' = generate_daily_overview(stocks, analyses)
    /\ pc' = "overview_done"
    /\ UNCHANGED <<stock, historical_data, analysis, analysis_error, rsi_ret,
                   stocks, analyses, summary, repository, symbol_option>>

NextBatch == AnalyzeNext \/ BatchReturn \/ GenerateDailyOverview

SpecBatch == InitBatch /\ [][NextBatch]_vars

-----------------------------------------------------------------------------
(* Properties of the batch analysis and the daily overview *)

\* C3: analyze_multiple_stocks returns a list of the length of its input whose
\* i-th element carries the i-th quote's symbol and is the result of
\* analyze_stock for that quote without history; the results already in the
\* list are never removed or altered while the later quotes are analysed.
C3_BatchOrder ==
    /\ Len(analyses) <= Len(stocks)
    /\ pc # "batch" => Len(analyses) = Len(stocks)
    /\ \A i \in 1..Len(analyses) :
           /\ analyses[i].stock_symbol = stocks[i].symbol
           /\ analyses[i] = analyze_stock(stocks[i], NoHistory).analysis

\* C3 witness: a batch of at least two quotes with different outcomes returned
C3_Witness ==
    /\ pc = "batch_done"
    /\ Len(stocks) >= 2
    /\ Len(analyses) = Len(stocks)
    /\ analyses[1].stock_symbol # analyses[2].stock_symbol
    /\ analyses[1].trend_direction = "up"
    /\ analyses[2].trend_direction = "down"

\* C4: generate_daily_overview called with an empty quote list fails with the
\* explicit error condition EmptyDataset.
C4_EmptyDataset ==
    (pc = "overview_done" /\ stocks = <<>>) => overview.error = "EmptyDataset"

\* the quote has a percentage change, zero included
ChangeGiven(s) == price_change_percent(s).some

StatedUp(s) == ChangeGiven(s) /\ NumGt(price_change_percent(s), IntNum(0))
StatedDown(s) == ChangeGiven(s) /\ NumLt(price_change_percent(s), IntNum(0))

\* the first three quotes by change, ties in input order
StatedTop(ss, descending) ==
    SymbolsOf(FirstThree(SortByChange(SelectSeq(ss, ChangeGiven), descending)))

\* C14: in the report of generate_daily_overview the up and down counts are
\* the numbers of quotes with positive and negative change; the top gainers
\* (losers) are the first three quotes by descending (ascending) change, ties
\* in input order; the sentiment is Positive iff up > down and Negative
\* otherwise; a single quote with a non-zero change is named both top gainer
\* and top loser.
C14_OverviewRanking ==
    (pc = "overview_done" /\ overview.error = "none") =>
        /\ overview.positive_stocks = Len(SelectSeq(stocks, StatedUp))
        /\ overview.negative_stocks = Len(SelectSeq(stocks, StatedDown))
        /\ overview.top_gainers = StatedTop(stocks, TRUE)
        /\ overview.top_losers = StatedTop(stocks, FALSE)
        /\ overview.market_sentiment =
               IF Len(SelectSeq(stocks, StatedUp)) > Len(SelectSeq(stocks, StatedDown))
               THEN "Positive" ELSE "Negative"
        /\ (Len(stocks) = 1 /\ (StatedUp(stocks[1]) \/ StatedDown(stocks[1]))) =>
               /\ overview.top_gainer = stocks[1].name
               /\ overview.top_loser = stocks[1].name

\* C19: for every non-empty quote list generate_daily_overview returns a
\* report; neither the average P/E nor the access to the top gainer and top
\* loser fails, also when no quote has a P/E or a non-zero change.
C19_OverviewReturns ==
    (pc = "overview_done" /\ stocks # <<>>) => overview.error = "none"

-----------------------------------------------------------------------------
(* The daily overview of quotes analysed with their histories *)

\* longest quote list enumerated with every combination of inputs
MaxOverview == 3

\* histories by the volatility they give: about 7.07, 9.55 and 13.48
CalmHistory == History(<<100, 110, 110>>)
UnsteadyHistory == History(<<100, 110, 100, 100>>)
VolatileHistory == History(<<100, 110, 100>>)

\* the quotes that can stand at position i and the history each is analysed with
OverviewInputs(i) ==
         {<<MkStock(SymbolAt(i), q[1], IntNum(100), None, q[2], None), NoHistory>> :
              q \in {<<None, IntNum(31)>>, <<IntNum(97), IntNum(31)>>,
                     <<IntNum(103), IntNum(31)>>, <<IntNum(103), None>>}}
    \cup {<<MkStock(SymbolAt(i), IntNum(c), IntNum(100), None, IntNum(31), None), h>> :
              c \in {97, 103}, h \in {CalmHistory, UnsteadyHistory, VolatileHistory}}

RECURSIVE OverviewListsOfLen(_)
OverviewListsOfLen(m) ==
    IF m = 0 THEN {<<>>}
    ELSE {Append(ins, in) : ins \in OverviewListsOfLen(m - 1), in \in OverviewInputs(m)}

\* a market of total quotes with a P/E, the first up of them up 3% and the
\* others down 3%, analysed without history
UniformMarket(total, up) ==
    SubSeq([i \in 1..total |->
               <<MkStock(SymbolAt(((i - 1) % 5) + 1),
                         IF i <= up THEN IntNum(103) ELSE IntNum(97),
                         IntNum(100), None, IntNum(31), None),
                 NoHistory>>],
           1, total)

\* markets in which exactly 70%, 60%, 40% or 30% of the quotes are up, and
\* one just above 70%
LargeMarkets ==
    {UniformMarket(10, 7), UniformMarket(80, 56), UniformMarket(90, 63),
     UniformMarket(90, 64), UniformMarket(10, 6), UniformMarket(10, 4),
     UniformMarket(10, 3)}

\* the lists of at most longest quotes, and the large markets
OverviewInputLists(longest) ==
    UNION {OverviewListsOfLen(m) : m \in 0..longest} \cup LargeMarkets

InitOverview ==
    /\ \E ins \in OverviewInputLists(MaxOverview) :
           /\ stocks = SubSeq([i \in 1..Len(ins) |-> ins[i][1]], 1, Len(ins))
           /\ analyses = SubSeq([i \in 1..Len(ins) |->
                                    analyze_stock(ins[i][1], ins[i][2]).analysis],
                                1, Len(ins))
    /\ overview = NoOverview
    /\ pc = "batch_done"
    /\ stock = NoStock
    /\ historical_data = NoHistory
    /\ analysis = NewAnalysis("")
    /\ analysis_error = "none"
    /\ rsi_ret = None
    /\ summary = NoSummary
    /\ stocks_table = {}
    /\ summaries_table = {}
    /\ save_ret = FALSE
    /\ get_ret = NotAsked
    /\ latest_ret = NoneAsked
    /\ analysis_table = <<>>
    /\ symbol_option = ""

NextOverview == GenerateDailyOverview

SpecOverview == InitOverview /\ [][NextOverview]_vars

\* level and title of each insight, in order
LevelsAndTitles(insights) ==
    [i \in 1..Len(insights) |-> <<insights[i].level, insights[i].title>>]

VolatilityOver(a, t) == a.volatility.some /\ VolGt(a.volatility, t)
VolatilityOver8(a) == VolatilityOver(a, 8)
VolatilityOver10(a) == VolatilityOver(a, 10)

\* the symbols of the analyses with volatility > 8, in input order
HighVolatilitySymbols(as) ==
    [i \in 1..Len(SelectSeq(as, VolatilityOver8)) |->
        SelectSeq(as, VolatilityOver8)[i].stock_symbol]

\* C22: the insights of the daily overview are, in this order: an info
\* "strong market" insight iff the positive count exceeds 70% of the quotes;
\* a warning "market weakness" insight iff it is below 30% of the quotes; a
\* warning "high volatility alert" with confidence 0.9 iff at least one
\* analysis has volatility > 8, whose related symbols are the symbols of
\* those analyses in input order.
C22_MarketInsights ==
    (pc = "overview_done" /\ overview.error = "none") =>
        LET up    == Len(SelectSeq(stocks, StatedUp))
            total == Len(stocks)
        IN  /\ LevelsAndTitles(overview.insights) =
                      (IF 10 * up > 7 * total
                       THEN <<<<"info", "Strong Market Performance">>>> ELSE <<>>)
                   \o (IF 10 * up < 3 * total
                       THEN <<<<"warning", "Market Weakness">>>> ELSE <<>>)
                   \o (IF HighVolatilitySymbols(analyses) # <<>>
                       THEN <<<<"warning", "High Volatility Alert">>>> ELSE <<>>)
            /\ \A i \in 1..Len(overview.insights) :
                   overview.insights[i].title = "High Volatility Alert" =>
                       /\ overview.insights[i].confidence = Num(9, 10)
                       /\ overview.insights[i].stock_symbols =
                              HighVolatilitySymbols(analyses)

BullishNote == "Market showing positive momentum - consider increasing equity exposure"
DefensiveNote == "Market weakness detected - consider defensive positioning"
PositionSizingNote == "Several stocks showing high volatility - use smaller position sizes"
RiskReviewNote == "Elevated risk levels detected - review portfolio risk management"

\* x occurs in the list xs
Contains(xs, x) == \E i \in 1..Len(xs) : xs[i] = x

\* C23: the recommendations of the daily overview are, in this order: the
\* bullish note iff more than 60% of the quotes are positive; the defensive
\* note iff fewer than 40% are positive; the position-sizing note iff some
\* analysis has volatility > 10; the risk-review note iff the number of
\* high-risk analyses exceeds 30% of the quotes.  The bullish and defensive
\* notes never both appear.
C23_MarketRecommendations ==
    (pc = "overview_done" /\ overview.error = "none") =>
        LET up        == Len(SelectSeq(stocks, StatedUp))
            total     == Len(stocks)
            high_risk == Len(SelectSeq(analyses, IsHighRisk))
        IN  /\ overview.recommendations =
                      (IF 10 * up > 6 * total THEN <<BullishNote>> ELSE <<>>)
                   \o (IF 10 * up < 4 * total THEN <<DefensiveNote>> ELSE <<>>)
                   \o (IF \E i \in 1..Len(analyses) : VolatilityOver10(analyses[i])
                       THEN <<PositionSizingNote>> ELSE <<>>)
                   \o (IF 10 * high_risk > 3 * total THEN <<RiskReviewNote>> ELSE <<>>)
            /\ ~(Contains(overview.recommendations, BullishNote)
                 /\ Contains(overview.recommendations, DefensiveNote))

\* C23 witness: two of three quotes are up (more than 60%, not more than
\* 70%), one analysis has a volatility between 8 and 10 and another one above
\* 10 and is high risk: bullish, position-sizing and risk-review notes
C23_Witness ==
    /\ pc = "overview_done" /\ overview.error = "none"
    /\ Len(stocks) = 3
    /\ Len(SelectSeq(stocks, StatedUp)) = 2
    /\ \E i, j \in 1..3 :
           /\ VolatilityOver8(analyses[i]) /\ ~VolatilityOver10(analyses[i])
           /\ VolatilityOver10(analyses[j]) /\ IsHighRisk(analyses[j])
    /\ overview.recommendations = <<BullishNote, PositionSizingNote, RiskReviewNote>>

\* C29: every analysis produced by analyze_multiple_stocks (analyze_stock
\* called without history) has volatility, both moving averages and RSI
\* undefined, a risk score of at most 2 and a risk level that is not high;
\* a daily overview built from these analyses has no high-volatility insight,
\* no position-sizing note and no risk-review note.
C29_BatchWithoutHistory ==
    /\ \A i \in 1..Len(analyses) :
           /\ analyses[i] = analyze_stock(stocks[i], NoHistory).analysis
           /\ analyses[i].volatility = None
           /\ analyses[i].moving_average_5d = None
           /\ analyses[i].moving_average_20d = None
           /\ analyses[i].rsi = None
           /\ risk_score(stocks[i], analyses[i]) <= 2
           /\ analyses[i].risk_level \in {"low", "medium"}
    /\ (pc = "overview_done" /\ overview.error = "none") =>
           /\ \A i \in 1..Len(overview.insights) :
                  overview.insights[i].title # "High Volatility Alert"
           /\ ~Contains(overview.recommendations, PositionSizingNote)
           /\ ~Contains(overview.recommendations, RiskReviewNote)

\* an overview was built from a batch in which a quote reaches risk score 2
C29_Witness ==
    /\ pc = "overview_done"
    /\ overview.error = "none"
    /\ \E i \in 1..Len(analyses) :
           /\ risk_score(stocks[i], analyses[i]) = 2
           /\ analyses[i].risk_level = "medium"

-----------------------------------------------------------------------------
(* The stocks table: save_stock and get_stock called in any order *)

\* the symbols saved, and one that never is
SavedSymbols == {"7203.T", "6758.T"}
AskedSymbols == SavedSymbols \cup {"9984.T"}

\* the quote s with one field replaced
WithPrice(s, x) == [s EXCEPT !.current_price = x]
WithPrevious(s, x) == [s EXCEPT !.previous_close = x]
WithVolume(s, x) == [s EXCEPT !.volume = x]
WithMarketCap(s, x) == [s EXCEPT !.market_cap = x]
WithPe(s, x) == [s EXCEPT !.pe_ratio = x]
WithDividend(s, x) == [s EXCEPT !.dividend_yield = x]
WithLastUpdated(s, t) == [s EXCEPT !.last_updated = t]

FullQuote ==
    [MkStock("7203.T", IntNum(103), IntNum(100), IntNum(500), IntNum(15), IntNum(3))
        EXCEPT !.volume = IntNum(1000)]

\* a full quote, and the quotes that differ from it in one field, each field
\* in turn absent and 0; two quotes of a second symbol
StoreQuoteInputs ==
         {FullQuote, MkStock("7203.T", None, None, None, None, None),
          WithLastUpdated(FullQuote, DateTime(2, 500))}
    \cup {WithPrice(FullQuote, x) : x \in Opt({0})}
    \cup {WithPrevious(FullQuote, x) : x \in Opt({0})}
    \cup {WithVolume(FullQuote, x) : x \in Opt({0})}
    \cup {WithMarketCap(FullQuote, x) : x \in Opt({0})}
    \cup {WithPe(FullQuote, x) : x \in Opt({0})}
    \cup {WithDividend(FullQuote, x) : x \in Opt({0}) \cup {Num(1, 2)}}
    \cup {MkStock("6758.T", IntNum(97), IntNum(100), None, x, None) : x \in Opt({0})}

InitStore ==
    /\ stocks_table = {}
    /\ summaries_table = {}
    /\ save_ret = FALSE
    /\ get_ret = NotAsked
    /\ latest_ret = NoneAsked
    /\ analysis_table = <<>>
    /\ symbol_option = ""
    /\ pc = "idle"
    /\ stock = NoStock
    /\ historical_data = NoHistory
    /\ analysis = NewAnalysis("")
    /\ analysis_error = "none"
    /\ rsi_ret = None
    /\ stocks = <<>>
    /\ analyses = <<>>
    /\ overview = NoOverview
    /\ summary = NoSummary

\* repository.save_stock(stock) commits and returns True
SaveStock ==
    /\ pc \in {"idle", "saved", "got"}
    /\ \E q \in StoreQuoteInputs :
           /\ stock' = q
           /\ stocks_table' = save_stock(stocks_table, q)
    /\ save_ret' = TRUE
    /\ pc' = "saved"
    /\ UNCHANGED <<historical_data, analysis, analysis_error, rsi_ret, stocks,
                   analyses, overview, summary, summaries_table, get_ret,
                   latest_ret, analysis_table, symbol_option>>

\* repository.save_stock(stock) when sqlite3 raises: the handler logs the
\* error and returns False, nothing is committed
SaveStockFails ==
    /\ pc \in {"idle", "saved", "got"}
    /\ \E q \in StoreQuoteInputs : stock' = q
    /\ save_ret' = FALSE
    /\ pc' = "saved"
    /\ UNCHANGED <<historical_data, analysis, analysis_error, rsi_ret, stocks,
                   analyses, overview, summary, stocks_table, summaries_table,
                   get_ret, latest_ret, analysis_table, symbol_option>>

\* repository.get_stock(symbol)
GetStock ==
    /\ pc \in {"idle", "saved", "got"}
    /\ \E symbol \in AskedSymbols :
           get_ret' = [symbol |-> symbol,
                       found  |-> get_stock(stocks_table, symbol).found,
                       stock  |-> get_stock(stocks_table, symbol).stock]
    /\ pc' = "got"
    /\ UNCHANGED <<stock, historical_data, analysis, analysis_error, rsi_ret,
                   stocks, analyses, overview, summary, stocks_table,
                   summaries_table, save_ret, latest_ret, analysis_table,
                   symbol_option>>

NextStore == SaveStock \/ SaveStockFails \/ GetStock

SpecStore == InitStore /\ [][NextStore]_vars

\* C17: save_stock(q) followed by get_stock(q.symbol) returns a quote equal to
\* q field for field (symbol, name, current price, previous close, volume,
\* market cap, P/E, dividend yield, last-updated), also when numeric fields
\* of q are 0.
C17_RoundTrip ==
    (pc = "got" /\ save_ret /\ get_ret.symbol = stock.symbol) =>
        /\ get_ret.found
        /\ get_ret.stock = stock

\* C18: the table holds at most one quote per symbol; get_stock(s) returns
\* nothing while no quote was saved for s, and after each successful
\* save_stock(q) it returns q for q.symbol and what it returned before for
\* every other symbol; failed saves and reads change nothing.
C18_LatestPerSymbol ==
    /\ \A s \in AskedSymbols : ~get_stock(stocks_table, s).found
    /\ [](\A r1, r2 \in stocks_table : r1.symbol = r2.symbol => r1 = r2)
    /\ [][\A s \in AskedSymbols :
              get_stock(stocks_table', s) =
                  IF pc' = "saved" /\ save_ret' /\ stock'.symbol = s
                  THEN [found |-> TRUE, stock |-> stock']
                  ELSE get_stock(stocks_table, s)]_vars

-----------------------------------------------------------------------------
(* The summaries table: save_summary and get_latest_summaries *)

\* largest limit asked
MaxLimit == 3

StoredSummaryIds == {"uuid-1", "uuid-2", "uuid-3"}

\* a summary as the service builds it, with the fields the model keeps
MkSummary(id, created_at, insights, recommendations, confidence_score) ==
    [id               |-> id,
     summary_type     |-> "stock_analysis",
     created_at       |-> created_at,
     insights         |-> insights,
     recommendations  |-> recommendations,
     stocks_analyzed  |-> <<"7203.T">>,
     analysis_period  |-> "1 day",
     confidence_score |-> confidence_score]

\* summaries without insights and recommendations created at 1 s and at 2 s,
\* and summaries with both created at 1.0005 s and at 2 s
SummaryInputs ==
         {MkSummary(id, t, <<>>, <<>>, None) :
              id \in StoredSummaryIds, t \in {DateTime(1, 0), DateTime(2, 0)}}
    \cup {MkSummary(id, t,
                    <<Insight("info", "Oversold Condition", <<"7203.T">>, Num(8, 10))>>,
                    <<"Potential buying opportunity - stock may be oversold">>,
                    Num(7, 10)) :
              id \in StoredSummaryIds, t \in {DateTime(1, 500), DateTime(2, 0)}}

NotSaved == MkSummary("", Now, <<>>, <<>>, None)

InitSummaries ==
    /\ summaries_table = {}
    /\ summary = NotSaved
    /\ save_ret = FALSE
    /\ latest_ret = NoneAsked
    /\ analysis_table = <<>>
    /\ symbol_option = ""
    /\ pc = "idle"
    /\ stocks_table = {}
    /\ get_ret = NotAsked
    /\ stock = NoStock
    /\ historical_data = NoHistory
    /\ analysis = NewAnalysis("")
    /\ analysis_error = "none"
    /\ rsi_ret = None
    /\ stocks = <<>>
    /\ analyses = <<>>
    /\ overview = NoOverview

\* repository.save_summary(summary) commits and returns True
SaveSummary ==
    /\ pc \in {"idle", "saved"}
    /\ \E s \in SummaryInputs :
           /\ summary' = s
           /\ summaries_table' = save_summary(summaries_table, s.id, s)
    /\ save_ret' = TRUE
    /\ pc' = "saved"
    /\ UNCHANGED <<stock, historical_data, analysis, analysis_error, rsi_ret,
                   stocks, analyses, overview, stocks_table, get_ret, latest_ret,
                   analysis_table, symbol_option>>

\* repository.save_summary(summary) when sqlite3 raises: the handler logs the
\* error and returns False, nothing is committed
SaveSummaryFails ==
    /\ pc \in {"idle", "saved"}
    /\ \E s \in SummaryInputs : summary' = s
    /\ save_ret' = FALSE
    /\ pc' = "saved"
    /\ UNCHANGED <<stock, historical_data, analysis, analysis_error, rsi_ret,
                   stocks, analyses, overview, stocks_table, summaries_table,
                   get_ret, latest_ret, analysis_table, symbol_option>>

\* summaries = repository.get_latest_summaries(limit)
GetLatestSummaries ==
    /\ pc \in {"idle", "saved"}
    /\ \E limit \in 0..MaxLimit :
           \E summaries \in get_latest_summaries(summaries_table, limit) :
               latest_ret' = [limit |-> limit, summaries |-> summaries]
    /\ pc' = "got"
    /\ UNCHANGED <<stock, historical_data, analysis, analysis_error, rsi_ret,
                   stocks, analyses, overview, summary, stocks_table,
                   summaries_table, save_ret, get_ret, analysis_table,
                   symbol_option>>

NextSummaries == SaveSummary \/ SaveSummaryFails \/ GetLatestSummaries

SpecSummaries == InitSummaries /\ [][NextSummaries]_vars

\* the summaries the table gives back when no limit cuts the list
Reloadable(table) ==
    {r[i] : r \in get_latest_summaries(table, Cardinality(table)),
            i \in 1..Cardinality(table)}

\* t1 is not earlier than t2
NotEarlier(t1, t2) ==
    \/ t1.second > t2.second
    \/ t1.second = t2.second /\ t1.microsecond >= t2.microsecond

\* C26: after any sequence of save_summary calls, get_latest_summaries(limit)
\* returns min(limit, number of distinct saved ids) summaries, newest first
\* by creation time; each returned summary equals the last summary saved
\* under its id in every field except insights, which is the empty list.
C26_LatestSummaries ==
    /\ Reloadable(summaries_table) = {}
    /\ [][Reloadable(summaries_table') =
              IF pc' = "saved" /\ save_ret'
              THEN {k \in Reloadable(summaries_table) : k.id # summary'.id}
                       \cup {[summary' EXCEPT !.insights = <<>>]}
              ELSE Reloadable(summaries_table)]_vars
    /\ [](\A k1, k2 \in Reloadable(summaries_table) : k1.id = k2.id => k1 = k2)
    /\ [](pc = "got" =>
            /\ Len(latest_ret.summaries) =
                   Min(latest_ret.limit, Cardinality(Reloadable(summaries_table)))
            /\ \A i \in 1..Len(latest_ret.summaries) :
                   latest_ret.summaries[i] \in Reloadable(summaries_table)
            /\ \A i, j \in 1..Len(latest_ret.summaries) : i < j =>
                   /\ latest_ret.summaries[i] # latest_ret.summaries[j]
                   /\ NotEarlier(latest_ret.summaries[i].created_at,
                                 latest_ret.summaries[j].created_at))

\* C26 witness: three ids were saved, the last one with insights; two
\* summaries were asked and came back, the newer first, the last one saved
\* among them without its insights
C26_Witness ==
    /\ pc = "got"
    /\ Cardinality(summaries_table) = 3
    /\ latest_ret.limit = 2
    /\ Len(latest_ret.summaries) = 2
    /\ summary.insights # <<>>
    /\ \E i \in 1..2 : latest_ret.summaries[i] = [summary EXCEPT !.insights = <<>>]
    /\ latest_ret.summaries[1].created_at # latest_ret.summaries[2].created_at
    /\ NotEarlier(latest_ret.summaries[1].created_at, latest_ret.summaries[2].created_at)

-----------------------------------------------------------------------------
(* The summarize command on a store filled by earlier collect commands *)

\* most quotes in the store
MaxStored == 2

\* the quotes that can be collected for the i-th symbol
StoredQuoteInputs(i) ==
    {MkStock(SymbolAt(i), c, IntNum(100), None, pe, None) :
         c \in Opt({97, 100, 103}), pe \in Opt({31})}

\* the stocks tables after collecting m symbols
RECURSIVE StoredTablesOfSize(_)
StoredTablesOfSize(m) ==
    IF m = 0 THEN {{}}
    ELSE {save_stock(t, s) : t \in StoredTablesOfSize(m - 1), s \in StoredQuoteInputs(m)}

StoredTables == UNION {StoredTablesOfSize(m) : m \in 0..MaxStored}

\* the values of --symbol
SummarizeSymbols == {SymbolAt(i) : i \in 1..(MaxStored + 1)}

\* the ids uuid4 gives to the summary generated
SummaryIds == {"uuid-1", "uuid-2"}

InitSummarize ==
    /\ stocks_table \in StoredTables
    /\ summaries_table = {}
    /\ save_ret = FALSE
    /\ get_ret = NotAsked
    /\ latest_ret = NoneAsked
    /\ analysis_table = <<>>
    /\ symbol_option = ""
    /\ pc = "summarize"
    /\ stock = NoStock
    /\ historical_data = NoHistory
    /\ analysis = NewAnalysis("")
    /\ analysis_error = "none"
    /\ rsi_ret = None
    /\ stocks = <<>>
    /\ analyses = <<>>
    /\ overview = NoOverview
    /\ summary = NoSummary

\* a slip in the command: the check `if not stocks` is missing
SummarizeDaily_NoEmptyCheck ==
    /\ pc = "summarize"
    /\ stocks' = get_all_stocks(stocks_table)
    /\ pc' = "batch"
    /\ UNCHANGED <<stock, historical_data, analysis, analysis_error, rsi_ret,
                   analyses, overview, summary, repository, symbol_option>>

\* summarize --type daily: stocks = repository.get_all_stocks(), and the
\* return when there are none
SummarizeDaily ==
    /\ pc = "summarize"
    /\ stocks' = get_all_stocks(stocks_table)
    /\ pc' = IF get_all_stocks(stocks_table) = <<>> THEN "done" ELSE "batch"
    /\ UNCHANGED <<stock, historical_data, analysis, analysis_error, rsi_ret,
                   analyses, overview, summary, repository, symbol_option>>

\* summarize --type stock --symbol S: stock = repository.get_stock(symbol),
\* and the return when it is not found
SummarizeStock ==
    /\ pc = "summarize"
    /\ \E symbol \in SummarizeSymbols :
           LET ret == get_stock(stocks_table, symbol)
           IN  /\ get_ret' = [symbol |-> symbol, found |-> ret.found, stock |-> ret.stock]
               /\ stock' = IF ret.found THEN ret.stock ELSE stock
               /\ pc' = IF ret.found THEN "start" ELSE "done"
    /\ UNCHANGED <<historical_data, analysis, analysis_error, rsi_ret, stocks,
                   analyses, overview, summary, stocks_table, summaries_table,
                   save_ret, latest_ret, analysis_table, symbol_option>>

\* repository.save_summary(summary) of the daily overview
SaveDailySummary ==
    /\ pc = "overview_done"
    /\ overview.error = "none"
    /\ \E id \in SummaryIds :
           summaries_table' = save_summary(summaries_table, id, overview)
    /\ pc' = "summary_saved"
    /\ UNCHANGED <<stock, historical_data, analysis, analysis_error, rsi_ret,
                   stocks, analyses, overview, summary, stocks_table, save_ret,
                   get_ret, latest_ret, analysis_table, symbol_option>>

\* repository.save_summary(summary) of the stock summary
SaveStockSummary ==
    /\ pc = "summarized"
    /\ summary.error = "none"
    /\ \E id \in SummaryIds :
           summaries_table' = save_summary(summaries_table, id, summary)
    /\ pc' = "summary_saved"
    /\ UNCHANGED <<stock, historical_data, analysis, analysis_error, rsi_ret,
                   stocks, analyses, overview, summary, stocks_table, save_ret,
                   get_ret, latest_ret, analysis_table, symbol_option>>

\* the exception raised while generating reaches the handler of the command,
\* which reports it; nothing is saved
SummarizeError ==
    /\ \/ pc = "overview_done" /\ overview.error \notin {"none", "not called"}
       \/ pc = "summarized" /\ summary.error \notin {"none", "not called"}
    /\ pc' = "done"
    /\ UNCHANGED <<stock, historical_data, analysis, analysis_error, rsi_ret,
                   stocks, analyses, overview, summary, repository,
                   symbol_option>>

NextSummarize ==
    \/ SummarizeDaily
    \/ AnalyzeNext
    \/ BatchReturn
    \/ GenerateDailyOverview
    \/ SaveDailySummary
    \/ SummarizeStock
    \/ AnalyzeStock
    \/ GenerateStockAnalysisSummary
    \/ SaveStockSummary
    \/ SummarizeError

SpecSummarize == InitSummarize /\ [][NextSummarize]_vars

\* C16: generate_daily_overview and generate_stock_analysis_summary leave the
\* store (tables stocks and summaries) and the quotes and analyses given to
\* them unchanged; the store changes only in the save_summary call the
\* command makes afterwards.
C16_SummariesLeaveStore ==
    [][/\ (GenerateDailyOverview \/ GenerateStockAnalysisSummary) =>
              UNCHANGED <<stocks_table, summaries_table, stocks, analyses,
                          stock, analysis>>
       /\ <<stocks_table, summaries_table>>' # <<stocks_table, summaries_table>> =>
              (SaveDailySummary \/ SaveStockSummary)]_vars

\* C16 witness: the overview of two stored quotes was generated and then
\* saved by the command; the quotes given are still those of the store
C16_Witness ==
    /\ pc = "summary_saved"
    /\ overview.error = "none"
    /\ Len(stocks) >= 2
    /\ stocks = get_all_stocks(stocks_table)
    /\ Len(analyses) = Len(stocks)
    /\ Cardinality(summaries_table) = 1
    /\ \A r \in summaries_table : r.summary_type = "daily_overview"

\* the generation of the report raised an exception
GenerationFailed ==
    \/ pc = "overview_done" /\ overview.error \notin {"none", "not called"}
    \/ pc = "summarized" /\ summary.error \notin {"none", "not called"}

\* C27: in the summarize command generate_daily_overview is invoked only with
\* a non-empty quote list loaded from the store, and save_summary is called
\* only after the generation has returned a report; when the generation
\* fails, the error is reported, no summary is written and the store is left
\* unchanged.
C27_SummarizeOrder ==
    /\ [][/\ GenerateDailyOverview =>
                 (stocks # <<>> /\ stocks = get_all_stocks(stocks_table))
          /\ summaries_table' # summaries_table =>
                 \/ pc = "overview_done" /\ overview.error = "none"
                 \/ pc = "summarized" /\ summary.error = "none"
          /\ GenerationFailed =>
                 /\ pc' = "done"
                 /\ UNCHANGED <<stocks_table, summaries_table>>
          /\ pc = "done" => UNCHANGED <<stocks_table, summaries_table>>]_vars
    /\ []((GenerationFailed \/ pc = "done") => summaries_table = {})

\* C27 witness: the overview of a non-empty stored list failed, the error
\* was reported and nothing was written
C27_Witness ==
    /\ pc = "done"
    /\ stocks # <<>>
    /\ stocks = get_all_stocks(stocks_table)
    /\ overview.error = "ZeroDivisionError"
    /\ summaries_table = {}

-----------------------------------------------------------------------------
(* The collect and analyze commands on one store *)

\* most rows of table analysis
MaxAnalysisRows == 2

\* securities codes, as in get_major_japanese_stocks
BareCodes == {"7203", "6758"}

\* the values of --symbols and --symbol: a code, with or without the suffix
RequestedSymbols == BareCodes \cup {code \o ".T" : code \in BareCodes}

\* symbol.endswith('.T')
endswith_T(requested) == \E code \in BareCodes : requested = code \o ".T"

\* "Add .T suffix for Tokyo Stock Exchange if not present"
symbol_with_suffix(requested) ==
    IF ~endswith_T(requested) THEN requested \o ".T" ELSE requested

\* the closes of the latest and of the previous day that yfinance gives
FetchedCloses == {<<97, 100>>, <<103, 100>>}

\* YahooFinanceCollector.collect_stock_data when the history is not empty
collect_stock_data(requested, closes) ==
    MkStock(symbol_with_suffix(requested), IntNum(closes[1]), IntNum(closes[2]),
            None, None, None)

\* the parameters of the INSERT of save_analysis that the model keeps
AnalysisRow(a) ==
    [stock_symbol      |-> a.stock_symbol,
     trend_direction   |-> a.trend_direction,
     volatility        |-> float_or_null(a.volatility),
     moving_average_5d |-> float_or_null(a.moving_average_5d),
     moving_average_20d |-> float_or_null(a.moving_average_20d),
     rsi               |-> float_or_null(a.rsi),
     valuation_score   |-> a.valuation_score,
     growth_potential  |-> a.growth_potential,
     risk_level        |-> a.risk_level,
     risk_factors      |-> json_dumps(a.risk_factors),
     daily_return      |-> float_or_null(a.daily_return)]

\* INSERT INTO analysis: the row gets the next id
save_analysis(table, a) == Append(table, AnalysisRow(a))

CommandEnded == {"shell", "collected", "nothing_collected", "analysis_shown", "not_found"}

InitCollect ==
    /\ stocks_table = {}
    /\ summaries_table = {}
    /\ save_ret = FALSE
    /\ get_ret = NotAsked
    /\ latest_ret = NoneAsked
    /\ analysis_table = <<>>
    /\ symbol_option = ""
    /\ pc = "shell"
    /\ stock = NoStock
    /\ historical_data = NoHistory
    /\ analysis = NewAnalysis("")
    /\ analysis_error = "none"
    /\ rsi_ret = None
    /\ stocks = <<>>
    /\ analyses = <<>>
    /\ overview = NoOverview
    /\ summary = NoSummary

\* collect --symbols S: the quote is collected and saved
Collect ==
    /\ pc \in CommandEnded
    /\ \E requested \in RequestedSymbols, closes \in FetchedCloses :
           /\ symbol_option' = requested
           /\ stock' = collect_stock_data(requested, closes)
           /\ stocks' = <<collect_stock_data(requested, closes)>>
           /\ stocks_table' = save_stock(stocks_table, collect_stock_data(requested, closes))
    /\ save_ret' = TRUE
    /\ pc' = "collected"
    /\ UNCHANGED <<historical_data, analysis, analysis_error, rsi_ret, analyses,
                   overview, summary, summaries_table, analysis_table, get_ret,
                   latest_ret>>

\* collect --symbols S when the collector returns None (no history, or an
\* exception): "No stock data collected"
CollectNothing ==
    /\ pc \in CommandEnded
    /\ \E requested \in RequestedSymbols : symbol_option' = requested
    /\ stocks' = <<>>
    /\ pc' = "nothing_collected"
    /\ UNCHANGED <<stock, historical_data, analysis, analysis_error, rsi_ret,
                   analyses, overview, summary, repository>>

\* analyze --symbol S when get_stock(S) returns a quote: it is analysed
\* without history, the analysis is saved and shown
Analyze ==
    /\ pc \in CommandEnded
    /\ Len(analysis_table) < MaxAnalysisRows
    /\ \E requested \in RequestedSymbols :
           LET ret == get_stock(stocks_table, requested)
           IN  /\ ret.found
               /\ symbol_option' = requested
               /\ get_ret' = [symbol |-> requested, found |-> TRUE, stock |-> ret.stock]
               /\ stock' = ret.stock
               /\ analysis' = analyze_stock(ret.stock, NoHistory).analysis
               /\ analysis_error' = analyze_stock(ret.stock, NoHistory).error
               /\ analysis_table' =
                      save_analysis(analysis_table,
                                    analyze_stock(ret.stock, NoHistory).analysis)
    /\ pc' = "analysis_shown"
    /\ UNCHANGED <<historical_data, rsi_ret, stocks, analyses, overview, summary,
                   stocks_table, summaries_table, save_ret, latest_ret>>

\* analyze --symbol S when get_stock(S) returns None: "Stock S not found in
\* database. Run 'collect' first."
AnalyzeNotFound ==
    /\ pc \in CommandEnded
    /\ \E requested \in RequestedSymbols :
           /\ ~get_stock(stocks_table, requested).found
           /\ symbol_option' = requested
           /\ get_ret' = [symbol |-> requested, found |-> FALSE, stock |-> NoStock]
    /\ pc' = "not_found"
    /\ UNCHANGED <<stock, historical_data, analysis, analysis_error, rsi_ret,
                   stocks, analyses, overview, summary, stocks_table,
                   summaries_table, analysis_table, save_ret, latest_ret>>

NextCollect == Collect \/ CollectNothing \/ Analyze \/ AnalyzeNotFound

SpecCollect == InitCollect /\ [][NextCollect]_vars

\* C28: after `collect --symbols s` has stored a quote for the requested
\* symbol s, a later `analyze --symbol s` (or `summarize --type stock
\* --symbol s`) finds that quote by get_stock(s), when s carries the '.T'
\* suffix and when s is a bare code; a quote found once is found by every
\* later command.
C28_CollectedIsFound ==
    /\ [][pc' = "collected" =>
              get_stock(stocks_table', symbol_option') =
                  [found |-> TRUE, stock |-> stock']]_vars
    /\ [][\A s \in RequestedSymbols :
              get_stock(stocks_table, s).found => get_stock(stocks_table', s).found]_vars
    /\ [](pc = "not_found" => ~get_stock(stocks_table, symbol_option).found)


\* the original statement fails only for a bare code: with the suffix the
\* collected quote is found
C28x_SuffixedIsFound ==
    [][(pc' = "collected" /\ endswith_T(symbol_option')) =>
           get_stock(stocks_table', symbol_option') =
               [found |-> TRUE, stock |-> stock']]_vars

=============================================================================
